---- MODULE Spec2Model ----
(***************************************************************************)
(* Model of the MCP gateway's Streamable HTTP transport:                   *)
(*   - SessionManager      (src/mcp_server/transport/session.py)           *)
(*   - StreamableHTTPTransport (src/mcp_server/transport/streamable_http.py)*)
(*   - the /mcp edge route (src/mcp_server/cloud_mcp_server.py)            *)
(*                                                                         *)
(*   - the legacy /sse + /messages pair and its MCPSessionManager          *)
(*                         (src/mcp_server/cloud_mcp_server.py)            *)
(*                                                                         *)
(* Spec       : threads calling the SessionManager API concurrently.       *)
(* SpecHTTP   : one /mcp exchange at a time, stepped at its suspension     *)
(*              points, interleaved with the clock and with the session    *)
(*              validation done by other exchanges.                        *)
(* SpecStream : the generator of a Streamable GET stream, interleaved with *)
(*              the SessionManager API and the clock; FairStream adds the  *)
(*              event loop's scheduling of the generator.                  *)
(* SpecLegacy : legacy Bearer streams and concurrent POST /messages;       *)
(*              FairLegacy adds the scheduling of generators and handlers. *)
(* SpecClassify, SpecFramer : _get_message_type and SSEMessage.to_sse_format*)
(*              applied to the arguments the initial state draws.          *)
(* SpecSessionInfo : get_session_info applied to two sessions.             *)
(* SpecConnections : the SSEConnectionManager registry, its background     *)
(*              sweep and the generators of create_sse_stream.             *)
(* SpecMint   : create_session generating a session id, one character at  *)
(*              a time, and regenerating it after a collision.             *)
(* SpecCancel : streams of one of the three kinds, opened, read and        *)
(*              cancelled by the client.                                   *)
(* SpecKeepAlive : the sleeps and queue waits of the three stream          *)
(*              generators against a clock of ten-second steps.            *)
(* SpecNotify : SpecLegacy with notifications among the POSTed bodies.     *)
(***************************************************************************)
EXTENDS Integers, FiniteSets, Sequences, TLC

VARIABLES
    now,        \* datetime.now(), in seconds since the manager was built
    sessions,   \* SessionManager.sessions : session id -> SessionData
    thr,        \* per thread: the SessionManager call it is in the middle of
    last,       \* the call or handler step that produced the current state
    hpc,        \* the /mcp handler's position
    req,        \* the HTTP request being handled
    resp,       \* the HTTP response produced for req
    hsid,       \* the handler's local variable session_id
    did,        \* what the current exchange has done so far
    gen,        \* the generator of the Streamable GET stream
    lsessions,  \* MCPSessionManager.sessions : session id -> MCPSession
    lqueue,     \* the asyncio.Queue of each legacy session ever created
    lgen,       \* per legacy session: the generator of its /sse stream
    posts,      \* per client: the POST /messages it is in the middle of
    lhist,      \* history of the legacy transport: what was enqueued, accepted
    connections,\* SSEConnectionManager.connections : connection id -> SSEConnection
    cstream,    \* per connection: the generator of create_sse_stream
    chist,      \* history of the connection registry
    fcall,      \* a function of the transport applied to an argument
    kstream,    \* per kind of stream: its generator against the clock in seconds
    mint        \* create_session generating a session id, character by character

vars == <<now, sessions, thr, last, hpc, req, resp, hsid, did,
          gen, lsessions, lqueue, lgen, posts, lhist,
          connections, cstream, chist, fcall, kstream, mint>>

----------------------------------------------------------------------------
(* Bounds *)

MaxTicks == 2

\* pings recorded per Streamable GET stream
MaxPings == 2

\* POSTs to /messages that get past the session check
MaxMsgs == 2

\* keep-alive comments recorded per legacy stream
MaxKeepAlives == 1

\* steps of the connection registry's clock
MaxConnTicks == 3

\* steps of the clock the keep-alive timing is measured against
MaxKSteps == 9

\* collisions one call of create_session runs into
MaxCollisions == 1

\* legacy session ids (uuid4 values) and the tokens clients present
LIDs == {"a", "b"}

Tokens == {"k1", "k2"}

IDs == {"s1", "s2"}

\* the kinds of stream the server serves
KStreams == {"streamable", "bearer", "api_key"}

Threads == {"t1", "t2"}

\* clients posting to /messages concurrently
Posters == {"p1", "p2"}

StateKeys == {"k"}

StateVals == {"v"}

----------------------------------------------------------------------------
(* Values *)

None == "None"

max_age_minutes == 30

\* one clock step: exactly the maximum age, so that ages 0, max and 2*max occur
TickSeconds == max_age_minutes * 60

EmptyDict == [k \in {} |-> None]

DictSet(d, k, v) == [x \in DOMAIN d \cup {k} |-> IF x = k THEN v ELSE d[x]]

\* SessionData(session_id, connection_manager, created_at, last_activity,
\*             state={}, auth_info={}, is_active=True)
SessionData(t, auth) ==
    [created_at |-> t, last_activity |-> t, state |-> EmptyDict,
     auth_info |-> auth, is_active |-> TRUE]

----------------------------------------------------------------------------
(* SessionManager: what each method returns and what it does to the table. *)
(* Every operator below is the body of one `with self._lock:` block.       *)

RemoveKeys(tbl, S) == [s \in DOMAIN tbl \ S |-> tbl[s]]

\* del self.sessions[...] also detaches the reference a thread obtained from
\* get_session: a later write through it no longer reaches the table.
Detach(S) ==
    [t \in Threads |->
        IF thr[t].op = "update_session_state" /\ thr[t].id \in S
        THEN [thr[t] EXCEPT !.live = FALSE] ELSE thr[t]]

\* mutant: the candidate is inserted without the collision check
create_session_ids_unchecked(cand) == {cand}

\* create_session, the while loop under the lock: the ids the call may end
\* up inserting, given the candidate generated before the lock was taken
create_session_ids(cand) ==
    IF cand \in DOMAIN sessions THEN IDs \ DOMAIN sessions ELSE {cand}

create_session_table(id, auth) ==
    [s \in DOMAIN sessions \cup {id} |->
        IF s = id THEN SessionData(now, auth) ELSE sessions[s]]

\* mutant: expiry is measured from the last activity
session_expired_by_activity(id) ==
    now - sessions[id].last_activity > max_age_minutes * 60

\* mutant: a session expires already at age max_age
session_expired_at_max(id) ==
    now - sessions[id].created_at >= max_age_minutes * 60

\* validate_session, lines 108-109
session_expired(id) ==
    now - sessions[id].created_at > max_age_minutes * 60

validate_session_ret(id) ==
    IF id \notin DOMAIN sessions THEN FALSE
    ELSE IF session_expired(id) THEN FALSE
    ELSE sessions[id].is_active

\* mutant: a validation that fails empties the table
validate_session_removed_all(id) ==
    IF validate_session_ret(id) THEN {} ELSE DOMAIN sessions

validate_session_removed(id) ==
    IF id \in DOMAIN sessions /\ session_expired(id) THEN {id} ELSE {}

\* mutant: the lookup leaves last_activity as it is
get_session_table_no_touch(id) == sessions

get_session_table(id) ==
    IF id \in DOMAIN sessions
    THEN [sessions EXCEPT ![id].last_activity = now]
    ELSE sessions

\* mutant: the activity of an unknown id is recorded in a new entry
update_session_activity_table_upsert(id) ==
    [s \in DOMAIN sessions \cup {id} |->
        IF s # id THEN sessions[s]
        ELSE IF id \in DOMAIN sessions
             THEN [sessions[id] EXCEPT !.last_activity = now]
             ELSE SessionData(now, EmptyDict)]

update_session_activity_table(id) ==
    IF id \in DOMAIN sessions
    THEN [sessions EXCEPT ![id].last_activity = now]
    ELSE sessions

\* mutant: the scan does not look at the creation age
cleanup_expired_ids_by_activity ==
    {s \in DOMAIN sessions :
        \/ now - sessions[s].last_activity > max_age_minutes * 60
        \/ ~sessions[s].is_active}

cleanup_expired_ids ==
    {s \in DOMAIN sessions :
        \/ now - sessions[s].created_at > max_age_minutes * 60
        \/ now - sessions[s].last_activity > max_age_minutes * 60
        \/ ~sessions[s].is_active}

----------------------------------------------------------------------------
(* SessionManager calls made by concurrent threads *)

Idle == [op |-> "idle"]

Done(op, id, ret) == [op |-> op, id |-> id, ret |-> ret]

SseUnchanged == UNCHANGED <<connections, cstream, chist, fcall, kstream, mint>>

LegacyUnchanged ==
    /\ UNCHANGED <<lsessions, lqueue, lgen, posts, lhist>>
    /\ SseUnchanged

HttpUnchanged ==
    /\ UNCHANGED <<hpc, req, resp, hsid, did, gen>>
    /\ LegacyUnchanged

\* create_session, lines 62-72: the candidate id is generated before the lock
CreateSessionBegin(t, cand) ==
    /\ thr[t] = Idle
    /\ thr' = [thr EXCEPT ![t] = [op |-> "create_session", cand |-> cand]]
    /\ last' = Done("create_session_begin", cand, None)
    /\ UNCHANGED <<now, sessions>>
    /\ HttpUnchanged

\* create_session, lines 74-89: collision loop and insertion under the lock
CreateSessionCommit(t) ==
    /\ thr[t].op = "create_session"
    /\ \E id \in create_session_ids(thr[t].cand) :
        /\ sessions' = create_session_table(id, EmptyDict)
        /\ last' = Done("create_session", id, id)
    /\ thr' = [thr EXCEPT ![t] = Idle]
    /\ UNCHANGED now
    /\ HttpUnchanged

ValidateSession(id) ==
    /\ sessions' = RemoveKeys(sessions, validate_session_removed(id))
    /\ thr' = Detach(validate_session_removed(id))
    /\ last' = Done("validate_session", id, validate_session_ret(id))
    /\ UNCHANGED now
    /\ HttpUnchanged

GetSession(id) ==
    /\ sessions' = get_session_table(id)
    /\ last' = Done("get_session", id, id \in DOMAIN sessions)
    /\ UNCHANGED <<now, thr>>
    /\ HttpUnchanged

UpdateSessionActivity(id) ==
    /\ sessions' = update_session_activity_table(id)
    /\ last' = Done("update_session_activity", id, None)
    /\ UNCHANGED <<now, thr>>
    /\ HttpUnchanged

\* update_session_state, line 169: session = self.get_session(session_id)
UpdateSessionStateBegin(t, id) ==
    /\ thr[t] = Idle
    /\ sessions' = get_session_table(id)
    /\ thr' = IF id \in DOMAIN sessions
              THEN [thr EXCEPT ![t] =
                       [op |-> "update_session_state", id |-> id, live |-> TRUE]]
              ELSE thr
    /\ last' = Done("update_session_state_begin", id, id \in DOMAIN sessions)
    /\ UNCHANGED now
    /\ HttpUnchanged

\* update_session_state, lines 171-172: the write through the reference
UpdateSessionStateCommit(t, k, v) ==
    /\ thr[t].op = "update_session_state"
    /\ sessions' = IF thr[t].live
                   THEN [sessions EXCEPT ![thr[t].id].state = DictSet(@, k, v)]
                   ELSE sessions
    /\ last' = Done("update_session_state", thr[t].id, thr[t].live)
    /\ thr' = [thr EXCEPT ![t] = Idle]
    /\ UNCHANGED now
    /\ HttpUnchanged

RemoveSession(id) ==
    /\ sessions' = RemoveKeys(sessions, {id} \cap DOMAIN sessions)
    /\ thr' = Detach({id} \cap DOMAIN sessions)
    /\ last' = Done("remove_session", id, id \in DOMAIN sessions)
    /\ UNCHANGED now
    /\ HttpUnchanged

CleanupExpiredSessions ==
    /\ sessions' = RemoveKeys(sessions, cleanup_expired_ids)
    /\ thr' = Detach(cleanup_expired_ids)
    /\ last' = Done("cleanup_expired_sessions", None, Cardinality(cleanup_expired_ids))
    /\ UNCHANGED now
    /\ HttpUnchanged

\* the clock
Advance ==
    /\ now < MaxTicks * TickSeconds
    /\ now' = now + TickSeconds

Tick ==
    /\ Advance
    /\ last' = Done("tick", None, None)
    /\ UNCHANGED <<sessions, thr>>
    /\ HttpUnchanged

----------------------------------------------------------------------------
(* HTTP requests to /mcp *)

ReqId == "req-7"

BearerHeader == "Bearer key"

\* validate_origin_header: the allow-list
allowed_origins ==
    {"http://127.0.0.1:6274", "http://127.0.0.1:6277",
     "http://localhost:6274", "http://localhost:6277",
     "https://127.0.0.1:6274", "https://127.0.0.1:6277",
     "https://localhost:6274", "https://localhost:6277",
     "https://mcp-server-883360737972.asia-northeast1.run.app"}

Origins == {None, "http://localhost:6274", "https://evil.example"}

\* an Accept header, as the set of media types it mentions
Accepts ==
    {{"application/json"}, {"text/event-stream"},
     {"application/json", "text/event-stream"}}

\* a JSON object body: the value of "jsonrpc", the fields present, the method
\* and its params (an empty object unless stated)
Obj(version, fields, method) ==
    [shape |-> "object", jsonrpc |-> version, fields |-> fields,
     method |-> IF "method" \in fields THEN method ELSE None,
     id |-> IF "id" \in fields THEN ReqId ELSE None,
     params |-> EmptyDict]

InitializeBody == Obj("2.0", {"id", "method", "params"}, "initialize")

\* {"method": "tools/call", "params": {"name": name, "arguments": arguments}}
ToolCall(name, arguments) ==
    [Obj("2.0", {"id", "method", "params"}, "tools/call")
        EXCEPT !.params = [name |-> name, arguments |-> arguments]]

ToolCalls ==
    {ToolCall("search", [query |-> "printer"]),
     ToolCall("fetch", [id |-> "MISSING"]),
     ToolCall("nope", EmptyDict)}

RequestBodies ==
    {InitializeBody,
     Obj("2.0", {"id", "method", "params"}, "ping"),
     Obj("2.0", {"id", "method", "params"}, "resources/list")}
    \cup ToolCalls

Bodies ==
    RequestBodies \cup
    {[shape |-> "garbage"],                        \* not JSON
     [shape |-> "array", items |-> <<InitializeBody>>],
     [shape |-> "scalar"],                         \* JSON, neither object nor array
     Obj("2.0", {"method", "params"}, "notifications/cancelled"),
     Obj("2.0", {"id", "result"}, None),
     Obj("1.0", {"id", "method", "params"}, "initialize")}

\* a Mcp-Session-Id header value with a character outside 0x21-0x7E (a space)
MalformedIds == {"s 1"}

Requests ==
    [method : {"POST"}, origin : Origins, accept : Accepts, body : Bodies,
     sid : IDs \cup {None}, authorization : {None, BearerHeader}]
    \cup
    [method : {"GET"}, origin : Origins, accept : Accepts, body : {None},
     sid : IDs \cup {None}, authorization : {None, BearerHeader}]
    \cup
    [method : {"POST"}, origin : {None},
     accept : {{"application/json", "text/event-stream"}},
     body : {Obj("2.0", {"id", "method", "params"}, "ping")},
     sid : MalformedIds, authorization : {BearerHeader}]
    \cup
    [method : {"GET"}, origin : {None}, accept : {{"text/event-stream"}},
     body : {None}, sid : MalformedIds, authorization : {BearerHeader}]

----------------------------------------------------------------------------
(* Auth provider (api_key) and credential extraction at the edge *)

\* verify_authentication: Authorization: Bearer <token> -> credentials
\* (the modelled requests carry no api_key query parameter or x-mcp-api-key)
extract_credentials(r) ==
    IF r.authorization # None THEN [api_key |-> "key"] ELSE EmptyDict

\* APIKeyAuthProvider.validate_credentials
validate_credentials(c) == "api_key" \in DOMAIN c /\ c["api_key"] # ""

\* APIKeyAuthProvider.authenticate(...).success
authenticate(c) == "api_key" \in DOMAIN c /\ c["api_key"] # ""

----------------------------------------------------------------------------
(* Responses *)

Absent == "absent"

\* JSONResponse(status_code, content, headers): the body is the JSON encoding
\* of content, so content None is sent as the four bytes `null`
NoContent == [none |-> TRUE]

JSONResponse(status, content, sid) ==
    [status |-> status,
     body |-> IF content = NoContent THEN [raw |-> "null"] ELSE content,
     session_header |-> sid]

\* raise HTTPException(status_code, detail): FastAPI answers {"detail": ...}
HTTPException(status, detail) ==
    [status |-> status, body |-> [detail |-> detail], session_header |-> None]

\* StreamingResponse(sse_generator(), media_type="text/event-stream", ...)
StreamingResponse(sid) ==
    [status |-> 200, body |-> [raw |-> "text/event-stream"], session_header |-> sid]

\* {"jsonrpc": "2.0", "id": id, "error": {"code": code, ...}}; id Absent when
\* the object has no "id" member, None when it is null
ErrorBody(id, code, message) ==
    [jsonrpc |-> "2.0", id |-> id,
     error |-> [code |-> code, message |-> message]]

ResultBody(id, result) == [jsonrpc |-> "2.0", id |-> id, result |-> result]

IsJsonRpcError(b) == DOMAIN b = {"jsonrpc", "id", "error"}

IsJsonRpcResponse(b) ==
    DOMAIN b = {"jsonrpc", "id", "error"} \/ DOMAIN b = {"jsonrpc", "id", "result"}

----------------------------------------------------------------------------
(* StreamableHTTPTransport: pure parts *)

\* mutant: the origin is not compared with the allow-list
validate_origin_header_any(r) == TRUE

validate_origin_header(r) ==
    IF r.origin = None THEN TRUE ELSE r.origin \in allowed_origins

\* mutant: an id whose value is null counts as absent
_get_message_type_id_not_null(body) ==
    IF body.shape # "object" \/ body.jsonrpc # "2.0" THEN "invalid"
    ELSE IF "method" \in body.fields /\ ("id" \in body.fields /\ body.id # None)
         THEN "request"
    ELSE IF "method" \in body.fields THEN "notification"
    ELSE IF ("result" \in body.fields \/ "error" \in body.fields)
             /\ ("id" \in body.fields /\ body.id # None) THEN "response"
    ELSE "invalid"

_get_message_type(body) ==
    IF body.shape # "object" \/ body.jsonrpc # "2.0" THEN "invalid"
    ELSE IF "method" \in body.fields /\ "id" \in body.fields THEN "request"
    ELSE IF "method" \in body.fields /\ "id" \notin body.fields THEN "notification"
    ELSE IF ("result" \in body.fields \/ "error" \in body.fields)
             /\ "id" \in body.fields THEN "response"
    ELSE "invalid"

_is_initialize_request(body) == body.method = "initialize"

\* body.get("id")
body_get_id(body) == IF "id" \in body.fields THEN body.id ELSE None

\* mutant: one of the two media types is enough
post_accept_either(r) ==
    "application/json" \in r.accept \/ "text/event-stream" \in r.accept

post_accept_ok(r) ==
    "application/json" \in r.accept /\ "text/event-stream" \in r.accept

get_accept_ok(r) == "text/event-stream" \in r.accept

\* d.get(k, default)
dict_get(d, k, default) == IF k \in DOMAIN d THEN d[k] ELSE default

\* the outcome of a call: the value returned, or str(e) of the exception
Returned(v) == [raised |-> FALSE, value |-> v]

Raised(e) == [raised |-> TRUE, message |-> e]

\* what the ticket API answers when TicketTools asks it
BackendStates == {"tickets", "no_tickets", "unreachable"}

\* TicketTools.get_ticket_list: a Markdown table, or a sentence saying that
\* nothing was found or that the API call failed; never JSON, never empty
get_ticket_list(api) ==
    Returned([is_json |-> FALSE,
              text |-> CASE api = "tickets"    -> "| ID | Title | Status |"
                         [] api = "no_tickets" -> "No tickets found matching the criteria."
                         [] OTHER              -> "Error retrieving ticket list: GET request failed"])

\* TicketTools.get_ticket_detail(ticketId=...): the method's parameter is
\* called ticket_id, so the call itself raises TypeError
get_ticket_detail(api) ==
    Raised("TicketTools.get_ticket_detail() got an unexpected keyword argument 'ticketId'")

InitializeResult ==
    [protocolVersion |-> "2025-03-26", serverName |-> "MCP Ticket Server",
     serverVersion |-> "1.0.0",
     capabilities |-> {"tools", "resources", "prompts", "logging"}]

ToolsListResult == [tools |-> <<"search", "fetch">>]

\* {"content": [{"type": "text", "text": json.dumps(result)}]}
ToolContent(result) == [content |-> <<[type |-> "text", text |-> result]>>]

NoResults == [results |-> <<>>]

\* StreamableHTTPTransport._execute_search_tool: every failure, and a raw
\* result that is empty or does not parse, gives {"results": []}
_execute_search_tool(arguments, api) ==
    LET raw_result == get_ticket_list(api) IN
    IF raw_result.raised THEN Returned(NoResults)
    ELSE IF raw_result.value.text = "" THEN Returned(NoResults)
    ELSE IF ~raw_result.value.is_json THEN Returned(NoResults)
    ELSE Returned([results |-> raw_result.value.tickets])

\* mutant: the exception of the failed call is passed on as it is
_execute_fetch_tool_reraise(arguments, api) ==
    LET raw_result == get_ticket_detail(api)
    IN IF raw_result.raised THEN raw_result ELSE Returned(raw_result.value)

\* StreamableHTTPTransport._execute_fetch_tool: every exception inside the
\* try block is replaced by ValueError("Failed to fetch ticket: <id>")
_execute_fetch_tool(arguments, api) ==
    LET ticket_id == dict_get(arguments, "id", "")
        raw_result == get_ticket_detail(api)
    IN IF raw_result.raised
       THEN Raised("Failed to fetch ticket: " \o ticket_id)
       ELSE Returned(raw_result.value)

\* StreamableHTTPTransport._handle_method_tools_call
_handle_method_tools_call(message_id, params, api) ==
    LET tool_name == dict_get(params, "name", None)
        arguments == dict_get(params, "arguments", EmptyDict)
        result == CASE tool_name = "search" -> _execute_search_tool(arguments, api)
                    [] tool_name = "fetch"  -> _execute_fetch_tool(arguments, api)
                    [] OTHER -> Raised("Unknown tool: " \o tool_name)
    IN IF result.raised THEN result
       ELSE Returned(ResultBody(message_id, ToolContent(result.value)))

\* mutant: the exception text is left out of the error
exception_response_no_data(message_id, e) ==
    [jsonrpc |-> "2.0", id |-> message_id,
     error |-> [code |-> -32603, message |-> "Internal error"]]

\* _process_message, lines 473-483: except Exception as e
exception_response(message_id, e) ==
    [jsonrpc |-> "2.0", id |-> message_id,
     error |-> [code |-> -32603, message |-> "Internal error", data |-> e]]

\* _process_message with the ticket API in state api
_process_message_with(body, api) ==
    LET message_id == body_get_id(body) IN
    CASE body.method = "initialize" -> ResultBody(message_id, InitializeResult)
      [] body.method = "tools/list" -> ResultBody(message_id, ToolsListResult)
      [] body.method = "tools/call" ->
            LET r == _handle_method_tools_call(message_id, body.params, api) IN
            IF r.raised THEN exception_response(message_id, r.message)
            ELSE r.value
      [] body.method = "ping" ->
            ResultBody(message_id, [status |-> "pong", timestamp |-> now])
      [] OTHER ->
            ErrorBody(message_id, -32601, "Method not found: " \o body.method)

\* _process_message: the responses the dispatcher can return for a request
_process_message(body) ==
    {_process_message_with(body, api) : api \in BackendStates}

\* mutant: the Authorization header is not snapshotted
initialize_auth_info_dropped(r) == EmptyDict

\* _handle_initialize_request, lines 330-332
initialize_auth_info(r) ==
    IF r.authorization # None
    THEN DictSet(EmptyDict, "authorization", r.authorization)
    ELSE EmptyDict

\* What the edge route and the handler decide before they touch the session
\* table: either the response (an error), or the stage to continue at.
Respond(r) == [next |-> "done", resp |-> r]

Continue(stage) == [next |-> stage, resp |-> None]

\* mutant: the Mcp-Session-Id header is not required to be present
_handle_get_request_no_header_test(r) ==
    IF ~get_accept_ok(r)
    THEN Respond(JSONResponse(405,
            ErrorBody(Absent, -32000,
                "Method Not Allowed. Accept header must include text/event-stream"),
            None))
    ELSE Continue("validate")

\* _handle_get_request, lines 101-130
_handle_get_request(r) ==
    IF ~get_accept_ok(r)
    THEN Respond(JSONResponse(405,
            ErrorBody(Absent, -32000,
                "Method Not Allowed. Accept header must include text/event-stream"),
            None))
    ELSE IF r.sid = None
    THEN Respond(JSONResponse(400,
            ErrorBody(Absent, -32000, "Missing Mcp-Session-Id header"), None))
    ELSE Continue("validate")

\* mutant: the isinstance(body, list) test is missing
parse_body_no_batch_test(r) ==
    CASE r.body.shape = "garbage" -> "parse_error"
      [] OTHER                    -> "ok"

\* body = await request.json() and the isinstance(body, list) test
parse_body(r) ==
    CASE r.body.shape = "garbage" -> "parse_error"
      [] r.body.shape = "array"   -> "batch"
      [] OTHER                    -> "ok"

\* _handle_post_request, lines 159-316, up to the session lookup
_handle_post_request(r) ==
    IF ~post_accept_ok(r)
    THEN Respond(JSONResponse(400,
            ErrorBody(None, -32600,
                "Invalid Accept header. Must include both application/json and text/event-stream"),
            None))
    ELSE IF parse_body(r) = "parse_error"
    THEN Respond(JSONResponse(400, ErrorBody(None, -32700, "Parse error"), None))
    ELSE IF parse_body(r) = "batch"
    THEN Respond(JSONResponse(400,
            ErrorBody(None, -32600,
                "Batch requests not supported. Body must be single JSON-RPC message."),
            None))
    ELSE LET message_type == _get_message_type(r.body) IN
    IF message_type = "request" /\ _is_initialize_request(r.body)
    THEN Continue("initialize")
    ELSE IF message_type \in {"notification", "response"}
    THEN IF r.sid = None
         THEN Respond(JSONResponse(400,
                ErrorBody(Absent, -32000,
                    "Missing Mcp-Session-Id header for notification/response"),
                None))
         ELSE Continue("validate")
    ELSE IF message_type = "request"
    THEN IF r.sid = None
         THEN Respond(JSONResponse(400,
                ErrorBody(body_get_id(r.body), -32000,
                    "Missing Mcp-Session-Id header"), None))
         ELSE Continue("validate")
    ELSE IF r.body.shape # "object"
    \* body.get raises AttributeError; handle_request answers 500
    THEN Respond(JSONResponse(500, ErrorBody(Absent, -32603, "Internal error"), None))
    ELSE Respond(JSONResponse(400,
            ErrorBody(body_get_id(r.body), -32600,
                "Invalid JSON-RPC message format"), None))

\* mcp_streamable_endpoint followed by handle_request
mcp_streamable_endpoint(r) ==
    IF ~validate_origin_header(r)
    THEN Respond(HTTPException(403, "Invalid origin"))
    ELSE IF r.method = "GET" THEN _handle_get_request(r)
    ELSE _handle_post_request(r)

----------------------------------------------------------------------------
(* One /mcp exchange, stepped at the points where it reaches the session   *)
(* table or may be suspended.                                              *)

NothingDone ==
    [created |-> None, validated |-> FALSE, dispatched |-> FALSE,
     touched |-> FALSE, stream |-> FALSE]

ManagerUnchanged ==
    /\ UNCHANGED <<thr, gen>>
    /\ LegacyUnchanged

\* the request arrives; origin guard, Accept negotiation, body parsing and
\* message classification
HReceive(r) ==
    /\ hpc = "idle"
    /\ req' = r
    /\ hsid' = r.sid
    /\ did' = NothingDone
    /\ hpc' = mcp_streamable_endpoint(r).next
    /\ resp' = mcp_streamable_endpoint(r).resp
    /\ last' = Done("http", None, None)
    /\ UNCHANGED <<now, sessions>>
    /\ ManagerUnchanged

\* _handle_initialize_request
HInitialize ==
    /\ hpc = "initialize"
    /\ \E cand \in IDs : \E id \in create_session_ids(cand) :
       \E result \in _process_message(req.body) :
        /\ sessions' = create_session_table(id, initialize_auth_info(req))
        /\ hsid' = id
        /\ did' = [did EXCEPT !.created = id, !.dispatched = TRUE]
        /\ resp' = JSONResponse(200, result, id)
    /\ hpc' = "done"
    /\ last' = Done("http", None, None)
    /\ UNCHANGED <<now, req>>
    /\ ManagerUnchanged

\* self.session_manager.validate_session(session_id) and what follows it
\* without suspension
HValidate ==
    /\ hpc = "validate"
    /\ LET ok == validate_session_ret(hsid)
           tbl == RemoveKeys(sessions, validate_session_removed(hsid))
           kind == IF req.method = "GET" THEN "GET" ELSE _get_message_type(req.body)
       IN
         IF ~ok
         THEN /\ sessions' = tbl
              /\ resp' = JSONResponse(404,
                            ErrorBody(IF kind = "request"
                                      THEN body_get_id(req.body) ELSE Absent,
                                      -32000, "Invalid session ID"), None)
              /\ hpc' = "done"
              /\ did' = [did EXCEPT !.validated = TRUE]
         ELSE IF kind = "GET"
         THEN \* _establish_sse_stream: get_session, then the stream
              /\ sessions' = get_session_table(hsid)
              /\ resp' = StreamingResponse(hsid)
              /\ hpc' = "done"
              /\ did' = [did EXCEPT !.validated = TRUE, !.touched = TRUE,
                                    !.stream = TRUE]
         ELSE IF kind \in {"notification", "response"}
         THEN \* _process_notification_or_response, update_session_activity
              /\ sessions' = update_session_activity_table(hsid)
              /\ resp' = JSONResponse(202, NoContent, hsid)
              /\ hpc' = "done"
              /\ did' = [did EXCEPT !.validated = TRUE, !.dispatched = TRUE,
                                    !.touched = TRUE]
         ELSE /\ sessions' = tbl
              /\ resp' = None
              /\ hpc' = "dispatch"
              /\ did' = [did EXCEPT !.validated = TRUE]
    /\ last' = Done("http", None, None)
    /\ UNCHANGED <<now, req, hsid>>
    /\ ManagerUnchanged

\* result = await self._process_message(body, session_id)
HDispatch ==
    /\ hpc = "dispatch"
    /\ \E result \in _process_message(req.body) :
        resp' = JSONResponse(200, result, hsid)
    /\ did' = [did EXCEPT !.dispatched = TRUE]
    /\ hpc' = "respond"
    /\ last' = Done("http", None, None)
    /\ UNCHANGED <<now, sessions, req, hsid>>
    /\ ManagerUnchanged

\* update_session_activity and return JSONResponse(content=result, ...)
HRespond ==
    /\ hpc = "respond"
    /\ sessions' = update_session_activity_table(hsid)
    /\ did' = [did EXCEPT !.touched = TRUE]
    /\ hpc' = "done"
    /\ last' = Done("http", None, None)
    /\ UNCHANGED <<now, req, resp, hsid>>
    /\ ManagerUnchanged

\* another exchange, on the same session table, validates a session (and so
\* removes it if it has expired)
OtherValidate(id) ==
    /\ sessions' = RemoveKeys(sessions, validate_session_removed(id))
    /\ last' = Done("http", None, None)
    /\ UNCHANGED <<now, hpc, req, resp, hsid, did>>
    /\ ManagerUnchanged

\* time passes during an exchange or between exchanges
HTick ==
    /\ Advance
    /\ last' = Done("http", None, None)
    /\ UNCHANGED <<sessions, hpc, req, resp, hsid, did>>
    /\ ManagerUnchanged

\* the response has been sent; the next request may arrive
HFinish ==
    /\ hpc = "done"
    /\ hpc' = "idle"
    /\ req' = None
    /\ resp' = None
    /\ hsid' = None
    /\ did' = None
    /\ last' = Done("http", None, None)
    /\ UNCHANGED <<now, sessions>>
    /\ ManagerUnchanged

NextHTTP ==
    \/ \E r \in Requests : HReceive(r)
    \/ HInitialize
    \/ HValidate
    \/ HDispatch
    \/ HRespond
    \/ HFinish
    \/ \E id \in IDs : OtherValidate(id)
    \/ HTick

----------------------------------------------------------------------------
(* The Streamable GET stream: _establish_sse_stream and its sse_generator  *)

endpoint_path == "/mcp"

\* SSEMessage.to_sse_format for data that already carries "jsonrpc": the
\* lines id, event, data (the JSON encoding of data) and an empty string,
\* joined by "\n"; newlines is the number of newline characters the text
\* ends with. The id is a fresh uuid4.
to_sse_format(event, data) ==
    [id |-> "uuid4", event |-> event, data |-> data, newlines |-> 1]

endpoint_msg ==
    to_sse_format("endpoint",
        [jsonrpc |-> "2.0", method |-> "notifications/endpoint",
         params |-> [endpoint |-> endpoint_path]])

ping_msg ==
    to_sse_format("ping",
        [jsonrpc |-> "2.0", method |-> "notifications/ping",
         params |-> [timestamp |-> now]])

\* mutant: the stream opens with a ping
sse_generator_first_ping == <<ping_msg, endpoint_msg>>

\* what the generator yields before it enters its loop
sse_generator_first == <<endpoint_msg>>

\* mutant: the loop goes on as long as the session is in the table
sse_generator_continue_known(id) == id \in DOMAIN sessions

\* while self.session_manager.validate_session(session_id)
sse_generator_continue(id) == validate_session_ret(id)

NoStream == [pc |-> "none", sid |-> None, frames |-> <<>>]

GenActive == gen.pc \in {"start", "loop", "sleep"}

StreamRest ==
    /\ UNCHANGED <<hpc, req, resp, hsid, did>>
    /\ LegacyUnchanged

\* _handle_get_request from validate_session on, and _establish_sse_stream:
\* the session is valid, get_session touches it, the response carries a new
\* generator that has not run yet
EstablishSSEStream(id) ==
    /\ ~GenActive
    /\ validate_session_ret(id)
    /\ sessions' = get_session_table(id)
    /\ gen' = [pc |-> "start", sid |-> id, frames |-> <<>>]
    /\ last' = Done("establish_sse_stream", id, TRUE)
    /\ UNCHANGED <<now, thr>>
    /\ StreamRest

\* sse_generator up to its first yield
GenStart ==
    /\ gen.pc = "start"
    /\ gen' = [gen EXCEPT !.pc = "loop", !.frames = @ \o sse_generator_first]
    /\ last' = Done("sse_generator", gen.sid, "endpoint")
    /\ UNCHANGED <<now, sessions, thr>>
    /\ StreamRest

\* the loop test, and either update_session_activity and the ping that is
\* yielded, or the end of the generator
GenLoop ==
    /\ gen.pc = "loop"
    /\ IF sse_generator_continue(gen.sid)
       THEN /\ Len(gen.frames) <= MaxPings
            /\ sessions' = update_session_activity_table(gen.sid)
            /\ thr' = thr
            /\ gen' = [gen EXCEPT !.pc = "sleep", !.frames = Append(@, ping_msg)]
            /\ last' = Done("sse_generator", gen.sid, "ping")
       ELSE /\ sessions' = RemoveKeys(sessions, validate_session_removed(gen.sid))
            /\ thr' = Detach(validate_session_removed(gen.sid))
            /\ gen' = [gen EXCEPT !.pc = "ended"]
            /\ last' = Done("sse_generator", gen.sid, "ended")
    /\ UNCHANGED now
    /\ StreamRest

\* await asyncio.sleep(30) returns
GenWake ==
    /\ gen.pc = "sleep"
    /\ gen' = [gen EXCEPT !.pc = "loop"]
    /\ last' = Done("sse_generator", gen.sid, "wake")
    /\ UNCHANGED <<now, sessions, thr>>
    /\ StreamRest

\* the client disconnects: asyncio.CancelledError at the suspension point
GenCancel ==
    /\ GenActive
    /\ gen' = [gen EXCEPT !.pc = "cancelled"]
    /\ last' = Done("sse_generator", gen.sid, "cancelled")
    /\ UNCHANGED <<now, sessions, thr>>
    /\ StreamRest

\* the handlers run on the event loop's thread
LoopThread == "t1"

NextStream ==
    \/ \E cand \in IDs : CreateSessionBegin(LoopThread, cand)
    \/ CreateSessionCommit(LoopThread)
    \/ \E id \in IDs : EstablishSSEStream(id)
    \/ GenStart
    \/ GenLoop
    \/ GenWake
    \/ GenCancel
    \/ \E id \in IDs : ValidateSession(id)
    \/ \E id \in IDs : RemoveSession(id)
    \/ CleanupExpiredSessions
    \/ Tick

----------------------------------------------------------------------------
(* The legacy transport: GET /sse with a Bearer token, POST /messages      *)

\* MCPSession(session_id, auth_token, message_queue): last_activity
\* defaults to datetime.now(), is_active to True (created_at is never read)
MCPSession(token) ==
    [auth_token |-> token, last_activity |-> now, is_active |-> TRUE]

\* asyncio.Queue(): maxsize 0, which asyncio takes as "no limit"
queue_maxsize == 0

\* asyncio.Queue.full()
queue_full(q) == IF queue_maxsize <= 0 THEN FALSE ELSE Len(q) >= queue_maxsize

\* mutant: the item is put at the head of the queue
put_nowait_front(q, m) == <<m>> \o q

\* asyncio.Queue.put_nowait on a queue that is not full
put_nowait(q, m) == Append(q, m)

\* mutant: the timeout takes the item the getter was woken up for
wait_for_timeout_drops(q) == IF q = <<>> THEN q ELSE Tail(q)

\* the queue after asyncio.wait_for(queue.get(), timeout) has timed out: the
\* cancelled getter leaves the queue as it is, also when put_nowait had
\* already woken it up
wait_for_timeout(q) == q

\* mutant: the cancelled getter takes the item it was woken up for
wait_for_cancelled_drops(q) == IF q = <<>> THEN q ELSE Tail(q)

\* the queue after the task waiting in asyncio.wait_for(queue.get(), timeout)
\* has been cancelled: the getter is withdrawn and every item stays
wait_for_cancelled(q) == q

\* MCPSessionManager.send_message_to_session: its return value
send_message_to_session_ret(id) ==
    IF id \in DOMAIN lsessions THEN ~queue_full(lqueue[id]) ELSE FALSE

\* MCPSessionManager.send_message_to_session: its effect on the queues
send_message_to_session_queues(id, m) ==
    IF send_message_to_session_ret(id)
    THEN [lqueue EXCEPT ![id] = put_nowait(@, m)]
    ELSE lqueue

\* MCPSessionManager.update_activity
update_activity_table(id) ==
    IF id \in DOMAIN lsessions
    THEN [lsessions EXCEPT ![id].last_activity = now]
    ELSE lsessions

timeout_minutes == 15

\* MCPSessionManager.cleanup_expired_sessions
legacy_expired_ids ==
    {s \in DOMAIN lsessions :
        now - lsessions[s].last_activity > timeout_minutes * 60}

\* CloudMCPServer._execute_search: json.loads of the raw text is not guarded
_execute_search(arguments, api) ==
    LET raw_result == get_ticket_list(api) IN
    IF raw_result.raised THEN raw_result
    ELSE IF ~raw_result.value.is_json
    THEN Raised("Expecting value: line 1 column 1 (char 0)")
    ELSE Returned([results |-> raw_result.value.tickets])

\* CloudMCPServer._execute_fetch
_execute_fetch(arguments, api) ==
    LET raw_result == get_ticket_detail(api) IN
    IF raw_result.raised THEN raw_result
    ELSE Returned(raw_result.value)

\* CloudMCPServer._execute_tool
_execute_tool(tool_name, arguments, api) ==
    CASE tool_name = "search" -> _execute_search(arguments, api)
      [] tool_name = "fetch"  -> _execute_fetch(arguments, api)
      [] OTHER -> Raised("Unknown tool: " \o tool_name)

\* process_mcp_message with the ticket API in state api
process_mcp_message(message, api) ==
    LET message_id == body_get_id(message) IN
    CASE message.method = "initialize" -> ResultBody(message_id, InitializeResult)
      [] message.method = "tools/list" -> ResultBody(message_id, ToolsListResult)
      [] message.method = "tools/call" ->
            LET r == _execute_tool(dict_get(message.params, "name", None),
                                   dict_get(message.params, "arguments", EmptyDict),
                                   api)
            IN IF r.raised THEN ErrorBody(message_id, -32603, r.message)
               ELSE ResultBody(message_id, ToolContent(r.value))
      [] message.method = "ping" -> ResultBody(message_id, [status |-> "pong"])
      [] OTHER ->
            ErrorBody(message_id, -32601, "Method not found: " \o message.method)

\* the JSON-RPC id of the n-th POST admitted
MsgId(n) == "m" \o ToString(n)

\* what clients post to /messages
LegacyBodies ==
    {Obj("2.0", {"id", "method", "params"}, "ping"),
     ToolCall("search", [query |-> "printer"]),
     [shape |-> "garbage"]}

PingBodies == {Obj("2.0", {"id", "method", "params"}, "ping")}

WithId(b, id) == IF b.shape = "object" THEN [b EXCEPT !.id = id] ELSE b

\* frames of the legacy stream: "event: <event>\ndata: <data>\n\n" and the
\* comment ": keep-alive\n\n"
EventFrame(event, data) == [event |-> event, data |-> data]

\* the comment line ": keep-alive": no event name, and no JSON data
KeepAliveFrame == [event |-> None, data |-> [comment |-> "keep-alive"]]

\* mutant: the endpoint event does not name the session
endpoint_data_no_session(id) == "/messages"

\* f"data: /messages?session_id={session_id}\n\n"
endpoint_data(id) == "/messages?session_id=" \o id

\* mutant: any token is taken for the session's
token_matches_any(auth_token, session) == TRUE

\* mcp_messages_endpoint, line 1269
token_matches(auth_token, session) == auth_token = session.auth_token

LegacyRest ==
    /\ UNCHANGED <<sessions, thr, hpc, req, resp, hsid, did, gen>>
    /\ SseUnchanged

\* the history kept for the claims: per session the token it was created
\* with and the messages in the order they were enqueued, each with its
\* request and the token its POST presented; the JSON-RPC ids answered
\* {"status": "accepted"}; the number of POSTs admitted so far
NoHistory == [owner |-> EmptyDict, enq |-> EmptyDict, accepted |-> {}, n |-> 0]

Reply(status, content) == [status |-> status, content |-> content]

\* a step of the legacy transport other than the answer to a request
LegacyStep == Done("legacy", None, None)

\* GET /sse (connect_sse_unified) with Authorization: Bearer <token>, or
\* without credentials: authentication, create_session, and the response
\* carrying a generator that has not run yet. uuid4 is the set of values
\* uuid.uuid4() can return; it never returns a value twice.
SseConnect(token, uuid4) ==
    /\ IF token = None
          \/ ~validate_credentials([api_key |-> token])
          \/ ~authenticate([api_key |-> token])
       THEN /\ last' = Done("connect_sse", None, Reply(401, [detail |-> "Missing authentication"]))
            /\ UNCHANGED <<lsessions, lqueue, lgen, lhist>>
       ELSE \E id \in uuid4 \ DOMAIN lqueue :
            /\ lsessions' = [s \in DOMAIN lsessions \cup {id} |->
                                IF s = id THEN MCPSession(token) ELSE lsessions[s]]
            /\ lqueue' = DictSet(lqueue, id, <<>>)
            /\ lgen' = DictSet(lgen, id,
                    [pc |-> "start", frames |-> <<>>, ka |-> 0, raced |-> FALSE])
            /\ lhist' = [lhist EXCEPT !.owner = DictSet(@, id, token),
                                      !.enq = DictSet(@, id, <<>>)]
            /\ last' = LegacyStep
    /\ UNCHANGED <<now, posts>>
    /\ LegacyRest

\* if not session or not session.is_active: break
loop_continues(tbl, id) == id \in DOMAIN tbl /\ tbl[id].is_active

\* mcp_sse_generator up to the endpoint event
LStart(id) ==
    /\ id \in DOMAIN lgen
    /\ lgen[id].pc = "start"
    /\ lgen' = [lgen EXCEPT ![id].pc = "opened",
                   ![id].frames = Append(@, EventFrame("endpoint", endpoint_data(id)))]
    /\ last' = LegacyStep
    /\ UNCHANGED <<now, lsessions, lqueue, posts, lhist>>
    /\ LegacyRest

\* the first pass through the loop head: the session test and the call of
\* get_next_message, up to asyncio.wait_for
LEnter(id) ==
    /\ id \in DOMAIN lgen
    /\ lgen[id].pc = "opened"
    /\ lgen' = [lgen EXCEPT ![id].pc =
                   IF loop_continues(lsessions, id) THEN "get" ELSE "ended"]
    /\ last' = LegacyStep
    /\ UNCHANGED <<now, lsessions, lqueue, posts, lhist>>
    /\ LegacyRest

Deliver(id) ==
    /\ lgen' = [lgen EXCEPT ![id].pc = "yielded",
                   ![id].frames = Append(@, EventFrame("message", Head(lqueue[id])))]
    /\ lqueue' = [lqueue EXCEPT ![id] = Tail(@)]
    /\ last' = LegacyStep

\* session.message_queue.get() starts: an item if there is one, else wait
LGet(id) ==
    /\ id \in DOMAIN lgen
    /\ lgen[id].pc = "get"
    /\ IF lqueue[id] # <<>>
       THEN Deliver(id)
       ELSE /\ lgen' = [lgen EXCEPT ![id].pc = "blocked"]
            /\ last' = LegacyStep
            /\ UNCHANGED lqueue
    /\ UNCHANGED <<now, lsessions, posts, lhist>>
    /\ LegacyRest

\* the getter woken up by put_nowait takes the item
LWake(id) ==
    /\ id \in DOMAIN lgen
    /\ lgen[id].pc = "blocked"
    /\ lqueue[id] # <<>>
    /\ Deliver(id)
    /\ UNCHANGED <<now, lsessions, posts, lhist>>
    /\ LegacyRest

\* asyncio.TimeoutError after 30 s: get_next_message returns None and the
\* generator yields the keep-alive comment; raced records that put_nowait
\* had already filled the queue when the timeout fired
LTimeout(id) ==
    /\ id \in DOMAIN lgen
    /\ lgen[id].pc = "blocked"
    /\ lgen[id].ka < MaxKeepAlives
    /\ lqueue' = [lqueue EXCEPT ![id] = wait_for_timeout(@)]
    /\ lgen' = [lgen EXCEPT ![id].pc = "yielded", ![id].ka = @ + 1,
                   ![id].frames = Append(@, KeepAliveFrame),
                   ![id].raced = @ \/ lqueue[id] # <<>>]
    /\ last' = LegacyStep
    /\ UNCHANGED <<now, lsessions, posts, lhist>>
    /\ LegacyRest

\* after a yield: update_activity, then the loop head again
LResume(id) ==
    /\ id \in DOMAIN lgen
    /\ lgen[id].pc = "yielded"
    /\ lsessions' = update_activity_table(id)
    /\ lgen' = [lgen EXCEPT ![id].pc =
                   IF loop_continues(lsessions, id) THEN "get" ELSE "ended"]
    /\ last' = LegacyStep
    /\ UNCHANGED <<now, lqueue, posts, lhist>>
    /\ LegacyRest

StreamOpen(id) ==
    id \in DOMAIN lgen /\ lgen[id].pc \notin {"ended", "cancelled"}

\* the client disconnects: asyncio.CancelledError at the suspension point
LCancel(id) ==
    /\ StreamOpen(id)
    /\ lgen' = [lgen EXCEPT ![id].pc = "cancelled"]
    /\ lqueue' = [lqueue EXCEPT ![id] = wait_for_cancelled(@)]
    /\ last' = LegacyStep
    /\ UNCHANGED <<now, lsessions, posts, lhist>>
    /\ LegacyRest

LGenStep(id) ==
    LStart(id) \/ LEnter(id) \/ LGet(id) \/ LWake(id) \/ LTimeout(id) \/ LResume(id)

\* POST /messages (and /message, which forwards to it): the session lookup
\* and the token comparison, up to await request.json()
PostReceive(p, id, token, b) ==
    /\ posts[p] = Idle
    /\ IF id \notin DOMAIN lsessions
       THEN \* the Authorization header has not been read yet
            /\ last' = Done("messages", id,
                    [stage |-> "receive", token |-> None,
                     reply |-> Reply(404, [detail |-> "Session not found"])])
            /\ UNCHANGED <<posts, lhist>>
       ELSE IF ~token_matches(token, lsessions[id])
       THEN /\ last' = Done("messages", id,
                    [stage |-> "receive", token |-> token,
                     reply |-> Reply(401, [detail |-> "Invalid session authentication"])])
            /\ UNCHANGED <<posts, lhist>>
       ELSE /\ lhist.n < MaxMsgs
            /\ posts' = [posts EXCEPT ![p] =
                    [op |-> "messages", pc |-> "json", sid |-> id, token |-> token,
                     body |-> WithId(b, MsgId(lhist.n + 1))]]
            /\ lhist' = [lhist EXCEPT !.n = @ + 1]
            /\ last' = LegacyStep
    /\ UNCHANGED <<now, lsessions, lqueue, lgen>>
    /\ LegacyRest

\* send_message_to_session(session_id, response) and the reply
PostSend(p, response) ==
    LET id == posts[p].sid
        success == send_message_to_session_ret(id)
    IN /\ lqueue' = send_message_to_session_queues(id, response)
       /\ lhist' = IF success
                   THEN [lhist EXCEPT
                            !.enq[id] = Append(@, [msg |-> response,
                                                   request |-> posts[p].body,
                                                   token |-> posts[p].token]),
                            !.accepted = @ \cup {response.id}]
                   ELSE lhist
       /\ last' = Done("messages", id,
                    [stage |-> "reply", token |-> posts[p].token,
                     reply |-> Reply(200,
                        IF success THEN [status |-> "accepted"]
                        ELSE [status |-> "error",
                              message |-> "Failed to send to SSE stream"])])
       /\ posts' = [posts EXCEPT ![p] = Idle]

\* await self.ticket_tools.get_ticket_list(...) is where a tools/call
\* handler is suspended
suspends(b) ==
    /\ b.method = "tools/call"
    /\ dict_get(b.params, "name", None) = "search"

\* the body has been read: parse error, or update_activity and
\* process_mcp_message up to its first suspension or to its end
PostParse(p) ==
    /\ posts[p] # Idle
    /\ posts[p].pc = "json"
    /\ LET id == posts[p].sid
           b == posts[p].body
       IN IF b.shape = "garbage"
          THEN /\ last' = Done("messages", id,
                    [stage |-> "reply", token |-> posts[p].token,
                     reply |-> Reply(200, [jsonrpc |-> "2.0", id |-> None,
                        error |-> [code |-> -32700, message |-> "Parse error",
                                   data |-> "Expecting value"]])])
               /\ posts' = [posts EXCEPT ![p] = Idle]
               /\ UNCHANGED <<lsessions, lqueue, lhist>>
          ELSE /\ lsessions' = update_activity_table(id)
               /\ IF b.shape # "object"
                  \* message.get raises AttributeError, in the handler of it too
                  THEN /\ last' = Done("messages", id,
                            [stage |-> "reply", token |-> posts[p].token,
                             reply |-> Reply(500, [detail |-> "Internal Server Error"])])
                       /\ posts' = [posts EXCEPT ![p] = Idle]
                       /\ UNCHANGED <<lqueue, lhist>>
                  ELSE IF suspends(b)
                  THEN /\ posts' = [posts EXCEPT ![p].pc = "tool"]
                       /\ last' = LegacyStep
                       /\ UNCHANGED <<lqueue, lhist>>
                  ELSE \E api \in BackendStates :
                        PostSend(p, process_mcp_message(b, api))
    /\ UNCHANGED <<now, lgen>>
    /\ LegacyRest

\* the ticket API has answered: the rest of process_mcp_message
PostTool(p) ==
    /\ posts[p] # Idle
    /\ posts[p].pc = "tool"
    /\ \E api \in BackendStates :
        PostSend(p, process_mcp_message(posts[p].body, api))
    /\ UNCHANGED <<now, lsessions, lgen>>
    /\ LegacyRest

\* MCPSessionManager.cleanup_expired_sessions (the server itself never
\* calls it)
LegacyCleanup ==
    /\ lsessions' = RemoveKeys(lsessions, legacy_expired_ids)
    /\ last' = LegacyStep
    /\ UNCHANGED <<now, lqueue, lgen, posts, lhist>>
    /\ LegacyRest

\* the stream followed frame by frame
OneStream == {"a"}

\* the token the followed stream is opened with
OneToken == {"k1"}

\* one legacy stream read to its end, and concurrent POSTs presenting its
\* session id and token (NextSessions has the POSTs that are refused)
NextLegacy ==
    \/ \E token \in OneToken : SseConnect(token, OneStream)
    \/ \E id \in LIDs : LStart(id)
    \/ \E id \in LIDs : LEnter(id)
    \/ \E id \in LIDs : LGet(id)
    \/ \E id \in LIDs : LWake(id)
    \/ \E id \in LIDs : LTimeout(id)
    \/ \E id \in LIDs : LResume(id)
    \/ \E id \in LIDs : LCancel(id)
    \/ \E p \in Posters, id \in OneStream, token \in OneToken, b \in LegacyBodies :
            PostReceive(p, id, token, b)
    \/ \E p \in Posters : PostParse(p)
    \/ \E p \in Posters : PostTool(p)

\* several legacy sessions whose clients read no further than the first
\* event of their stream, and concurrent POSTs
NextSessions ==
    \/ \E token \in Tokens \cup {None} : SseConnect(token, LIDs)
    \/ \E id \in LIDs : LStart(id)
    \/ \E p \in Posters, id \in LIDs, token \in Tokens \cup {None}, b \in PingBodies :
            PostReceive(p, id, token, b)
    \/ \E p \in Posters : PostParse(p)
    \/ LegacyCleanup
    \/ Tick

\* the legacy transport as the server runs it: streams are opened, read and
\* closed while time passes; nothing in the server calls
\* cleanup_expired_sessions
NextRunning ==
    \/ \E token \in OneToken : SseConnect(token, LIDs)
    \/ \E id \in LIDs : LStart(id)
    \/ \E id \in LIDs : LEnter(id)
    \/ \E id \in LIDs : LGet(id)
    \/ \E id \in LIDs : LTimeout(id)
    \/ \E id \in LIDs : LResume(id)
    \/ \E id \in LIDs : LCancel(id)
    \/ Tick

----------------------------------------------------------------------------
(* SSEConnectionManager and SSETransport.create_sse_stream *)

\* the history kept for the claims: the ids connect has issued, and the ids
\* for which ping_connection has returned False
NoConnHistory == [used |-> {}, failed |-> {}]

\* Settings.cloud_run_timeout, passed to SSEConnectionManager
connection_timeout == 840

\* the clock of the connection registry advances in steps of half a timeout
ConnTickSeconds == connection_timeout \div 2

\* connection ids (uuid4 values), and an id connect never issues
CIDs == {"c1", "c2"}

NonExistent == "non-existent"

\* SSEConnection(connection_id, client_ip, connected_at, last_ping,
\*               credentials, is_active=True)
SSEConnection(t) == [connected_at |-> t, last_ping |-> t, is_active |-> TRUE]

\* SSEConnection.is_expired(self.connection_timeout)
is_expired(conn) == now - conn.connected_at > connection_timeout

\* SSEConnectionManager.disconnect: the registry afterwards
disconnect_table(id) ==
    IF id \in DOMAIN connections THEN RemoveKeys(connections, {id})
    ELSE connections

\* SSEConnectionManager.ping_connection: its return value
ping_connection_ret(id) ==
    /\ id \in DOMAIN connections
    /\ connections[id].is_active
    /\ ~is_expired(connections[id])

\* mutant: a connection that fails the test is left in the registry
ping_connection_table_keeps(id) ==
    IF ping_connection_ret(id)
    THEN [connections EXCEPT ![id].last_ping = now]
    ELSE connections

\* SSEConnectionManager.ping_connection: the registry afterwards
ping_connection_table(id) ==
    IF id \notin DOMAIN connections THEN connections
    ELSE IF ping_connection_ret(id)
    THEN [connections EXCEPT ![id].last_ping = now]
    ELSE disconnect_table(id)

\* mutant: the sweep looks at the active flag only
expired_connections_inactive_only ==
    {id \in DOMAIN connections : ~connections[id].is_active}

\* _cleanup_expired_connections: the list it builds
expired_connections ==
    {id \in DOMAIN connections :
        is_expired(connections[id]) \/ ~connections[id].is_active}

SseRest ==
    /\ UNCHANGED <<sessions, thr, hpc, req, resp, hsid, did, gen>>
    /\ UNCHANGED <<lsessions, lqueue, lgen, posts, lhist, fcall, kstream, mint>>

\* a step of the registry or of a stream that returns nothing to a caller
ConnStep == Done("connections", None, None)

\* GET /sse without a Bearer token: connection_manager.connect and
\* create_sse_response, whose generator has not run yet
Connect(id) ==
    /\ id \in CIDs \ chist.used
    /\ connections' = DictSet(connections, id, SSEConnection(now))
    /\ cstream' = DictSet(cstream, id, [pc |-> "start"])
    /\ chist' = [chist EXCEPT !.used = @ \cup {id}]
    /\ last' = ConnStep
    /\ UNCHANGED now
    /\ SseRest

\* create_sse_stream: yield endpoint_msg.to_sse_format()
CStart(id) ==
    /\ id \in DOMAIN cstream
    /\ cstream[id].pc = "start"
    /\ cstream' = [cstream EXCEPT ![id].pc = "endpoint"]
    /\ last' = ConnStep
    /\ UNCHANGED <<now, connections, chist>>
    /\ SseRest

\* create_sse_stream: yield welcome_msg.to_sse_format()
CWelcome(id) ==
    /\ id \in DOMAIN cstream
    /\ cstream[id].pc = "endpoint"
    /\ cstream' = [cstream EXCEPT ![id].pc = "welcome"]
    /\ last' = ConnStep
    /\ UNCHANGED <<now, connections, chist>>
    /\ SseRest

\* ping_connection as its callers see it
PingCall(id) ==
    /\ connections' = ping_connection_table(id)
    /\ chist' = IF ping_connection_ret(id) THEN chist
                ELSE [chist EXCEPT !.failed = @ \cup {id}]
    /\ last' = Done("ping_connection", id, ping_connection_ret(id))

\* create_sse_stream, one turn of the loop: ping_connection, then either
\* break or yield the ping message and sleep 30 s
CLoop(id) ==
    /\ id \in DOMAIN cstream
    /\ cstream[id].pc \in {"welcome", "sleep"}
    /\ PingCall(id)
    /\ cstream' = [cstream EXCEPT ![id].pc =
                      IF ping_connection_ret(id) THEN "sleep" ELSE "ended"]
    /\ UNCHANGED now
    /\ SseRest

\* the client goes away while the generator is in asyncio.sleep(30):
\* CancelledError is raised there and handled by disconnect
CCancel(id) ==
    /\ id \in DOMAIN cstream
    /\ cstream[id].pc = "sleep"
    /\ connections' = disconnect_table(id)
    /\ cstream' = [cstream EXCEPT ![id].pc = "cancelled"]
    /\ last' = Done("disconnect", id, None)
    /\ UNCHANGED <<now, chist>>
    /\ SseRest

\* the client goes away while the generator has not run yet or is suspended
\* at a yield (the ping yield included): the generator is closed there, no
\* except clause of create_sse_stream handles that, and nothing disconnects
CClose(id) ==
    /\ id \in DOMAIN cstream
    /\ cstream[id].pc \in {"start", "endpoint", "welcome", "sleep"}
    /\ cstream' = [cstream EXCEPT ![id].pc = "closed"]
    /\ last' = ConnStep
    /\ UNCHANGED <<now, connections, chist>>
    /\ SseRest

\* ping_connection called with an id a caller can name
PingConnection(id) ==
    /\ id \in chist.used \cup {NonExistent}
    /\ PingCall(id)
    /\ UNCHANGED <<now, cstream>>
    /\ SseRest

\* disconnect called with an id a caller can name
Disconnect(id) ==
    /\ id \in chist.used \cup {NonExistent}
    /\ connections' = disconnect_table(id)
    /\ last' = Done("disconnect", id, None)
    /\ UNCHANGED <<now, cstream, chist>>
    /\ SseRest

\* _cleanup_expired_connections, one turn of its loop: every connection of
\* the list is disconnected, then the task sleeps 60 s
SweepRun ==
    /\ connections' = RemoveKeys(connections, expired_connections)
    /\ last' = Done("sweep", None, None)
    /\ UNCHANGED <<now, cstream, chist>>
    /\ SseRest

ConnTick ==
    /\ now < MaxConnTicks * ConnTickSeconds
    /\ now' = now + ConnTickSeconds
    /\ last' = ConnStep
    /\ UNCHANGED <<connections, cstream, chist>>
    /\ SseRest

NextConnections ==
    \/ \E id \in CIDs : Connect(id)
    \/ \E id \in CIDs : CStart(id)
    \/ \E id \in CIDs : CWelcome(id)
    \/ \E id \in CIDs : CLoop(id)
    \/ \E id \in CIDs : CCancel(id)
    \/ \E id \in CIDs : CClose(id)
    \/ \E id \in CIDs \cup {NonExistent} : PingConnection(id)
    \/ \E id \in CIDs \cup {NonExistent} : Disconnect(id)
    \/ SweepRun
    \/ ConnTick

----------------------------------------------------------------------------
(* The timing of the stream generators: the Streamable GET stream           *)
(* (sse_generator), the legacy Bearer stream (mcp_sse_generator) and the    *)
(* legacy api_key stream (create_sse_stream), with their sleeps and queue   *)
(* waits measured on the clock. A generator that is ready runs before the   *)
(* clock moves on.                                                          *)

\* await asyncio.sleep(30) in sse_generator and create_sse_stream
ping_interval == 30

\* get_next_message(session_id, timeout=30.0)
keepalive_timeout == 30

\* one step of the clock, in seconds
KStep == ping_interval \div 3

\* mutant: the generator sleeps one clock step
sleep_deadline_short(t) == t + KStep

\* when asyncio.sleep(30), begun at t, returns
sleep_deadline(t) == t + ping_interval

\* when asyncio.wait_for(queue.get(), timeout), begun at t, times out
wait_for_deadline(t) == t + keepalive_timeout

KOpenAt(k) == kstream[k].pc = "open"

KRest ==
    /\ UNCHANGED <<sessions, thr, hpc, req, resp, hsid, did, gen>>
    /\ UNCHANGED <<lsessions, lqueue, lgen, posts, lhist>>
    /\ UNCHANGED <<connections, cstream, chist, fcall, mint>>
    /\ last' = Done("keepalive", None, None)

\* the stream is opened: the generator yields its opening frames and reaches
\* its loop; the Bearer generator starts its first queue wait
KOpen(k) ==
    /\ kstream[k].pc = "none"
    /\ kstream' = [kstream EXCEPT ![k] =
            [pc |-> "open", opened |-> now, pings |-> 0, traffic |-> FALSE,
             wake |-> IF k = "bearer" THEN wait_for_deadline(now) ELSE now]]
    /\ UNCHANGED now
    /\ KRest

\* sse_generator and create_sse_stream, one turn of the loop: the ping is
\* yielded and the generator sleeps
KPing(k) ==
    /\ k \in {"streamable", "api_key"}
    /\ KOpenAt(k)
    /\ kstream[k].wake = now
    /\ kstream' = [kstream EXCEPT ![k].pings = @ + 1,
                                  ![k].wake = sleep_deadline(now)]
    /\ UNCHANGED now
    /\ KRest

\* mcp_sse_generator: the queue wait times out, ": keep-alive" is yielded
\* and the next wait begins
KKeepAlive ==
    /\ KOpenAt("bearer")
    /\ kstream["bearer"].wake = now
    /\ kstream' = [kstream EXCEPT !["bearer"].pings = @ + 1,
                                  !["bearer"].wake = wait_for_deadline(now)]
    /\ UNCHANGED now
    /\ KRest

\* mcp_sse_generator: a message arrives while the generator waits; it is
\* yielded as event: message and the next wait begins
KMessage ==
    /\ KOpenAt("bearer")
    /\ kstream' = [kstream EXCEPT !["bearer"].traffic = TRUE,
                                  !["bearer"].wake = wait_for_deadline(now)]
    /\ UNCHANGED now
    /\ KRest

\* the client disconnects
KClose(k) ==
    /\ KOpenAt(k)
    /\ kstream' = [kstream EXCEPT ![k] = [pc |-> "closed"]]
    /\ UNCHANGED now
    /\ KRest

KTick ==
    /\ now < MaxKSteps * KStep
    /\ \A k \in KStreams : KOpenAt(k) => kstream[k].wake > now
    /\ now' = now + KStep
    /\ UNCHANGED kstream
    /\ KRest

----------------------------------------------------------------------------
(* create_session, lines 62-89: the generation of the session id. The id    *)
(* is kept as its length, its last character and the set of its character  *)
(* codes that lie outside 0x21..0x7E.                                       *)

\* range(32)
id_length == 32

\* mutant: the alphabet is every printable ASCII character, space included
visible_ascii_with_space == 32 .. 126

\* string.ascii_letters + string.digits + string.punctuation, filtered by
\* 0x21 <= ord(c) <= 0x7E
visible_ascii ==
    {c \in (65 .. 90) \cup (97 .. 122) \cup (48 .. 57)
            \cup (33 .. 47) \cup (58 .. 64) \cup (91 .. 96) \cup (123 .. 126) :
        33 <= c /\ c <= 126}

\* a candidate of which no character has been chosen yet
NewCandidate(collisions) ==
    [pc |-> "generate", len |-> 0, last |-> 0, outside |-> {},
     collisions |-> collisions]

MintRest ==
    /\ UNCHANGED <<now, sessions, thr, hpc, req, resp, hsid, did, gen>>
    /\ UNCHANGED <<lsessions, lqueue, lgen, posts, lhist>>
    /\ UNCHANGED <<connections, cstream, chist, fcall, kstream>>
    /\ last' = Done("mint", None, None)

\* secrets.choice(visible_ascii), once per position
MintChoice(c) ==
    /\ mint.pc = "generate"
    /\ mint.len < id_length
    /\ mint' = [mint EXCEPT !.len = @ + 1, !.last = c,
                            !.outside = @ \cup ({c} \ (33 .. 126))]
    /\ MintRest

\* ''.join(...) is complete: with self._lock, outside the loop for the
\* first candidate, inside it for a regenerated one
MintJoin ==
    /\ mint.pc = "generate"
    /\ mint.len = id_length
    /\ mint' = [mint EXCEPT !.pc = "locked"]
    /\ MintRest

\* while session_id in self.sessions: the candidate is in the table and a
\* new one is generated
MintCollide ==
    /\ mint.pc = "locked"
    /\ mint.collisions < MaxCollisions
    /\ mint' = NewCandidate(mint.collisions + 1)
    /\ MintRest

\* the candidate is not in the table: it is inserted and returned
MintReturn ==
    /\ mint.pc = "locked"
    /\ mint' = [mint EXCEPT !.pc = "returned"]
    /\ MintRest

NextMint ==
    \/ \E c \in visible_ascii : MintChoice(c)
    \/ MintJoin
    \/ MintCollide
    \/ MintReturn

NextKeepAlive ==
    \/ \E k \in KStreams : KOpen(k)
    \/ \E k \in KStreams : KPing(k)
    \/ KKeepAlive
    \/ KMessage
    \/ \E k \in KStreams : KClose(k)
    \/ KTick

----------------------------------------------------------------------------
(* Functions of the transport applied to one argument *)

\* a call that has not returned yet, and the same call with its result
Call(fn, arg) == [fn |-> fn, arg |-> arg]

Return(c, ret) == [fn |-> c.fn, arg |-> c.arg, ret |-> ret]

NoCall == [fn |-> "none"]

Pending(fn) == fcall.fn = fn /\ "ret" \notin DOMAIN fcall

Returns(fn) == fcall.fn = fn /\ "ret" \in DOMAIN fcall

PureRest ==
    /\ UNCHANGED <<now, sessions, thr, hpc, req, resp, hsid, did, gen>>
    /\ UNCHANGED <<lsessions, lqueue, lgen, posts, lhist>>
    /\ UNCHANGED <<connections, cstream, chist, kstream, mint>>

\* the fields a message may carry besides "jsonrpc"
MessageFields == {"id", "method", "result", "error", "params"}

\* the bodies _get_message_type is applied to: JSON objects with every
\* combination of fields, "jsonrpc" being "2.0", "1.0" or absent, the id a
\* string or null, and two JSON values that are not objects
MessageBodies ==
    {[shape |-> "object", jsonrpc |-> v, fields |-> F,
      method |-> IF "method" \in F THEN m ELSE None,
      id |-> IF "id" \in F THEN i ELSE None,
      params |-> EmptyDict] :
        v \in {"2.0", "1.0", None}, F \in SUBSET MessageFields,
        m \in {"ping", "notifications/cancelled"}, i \in {ReqId, None}}
    \cup {[shape |-> "scalar"], [shape |-> "array", items |-> <<>>]}

GetMessageType ==
    /\ Pending("_get_message_type")
    /\ fcall' = Return(fcall, _get_message_type(fcall.arg))
    /\ last' = Done("call", None, None)
    /\ PureRest

NextClassify == GetMessageType

\* SSEMessage.to_sse_format. A dict is a function from its keys; a Python
\* str that stands where a dict may stand is the record [str |-> s]; the
\* data of a message is [dict |-> d], [str |-> s] or [list |-> l].

\* dict.get(k)
Get(d, k) == IF k \in DOMAIN d THEN d[k] ELSE None

\* dict.update(other)
Update(d, other) ==
    [k \in DOMAIN d \cup DOMAIN other |->
        IF k \in DOMAIN other THEN other[k] ELSE d[k]]

\* json.dumps and json.loads: the text of a JSON value and the value of a
\* JSON text; a dict of str keys with str, dict or None values decodes to
\* itself
json_dumps(v) == [json |-> v]

json_loads(t) == t.json

\* the error member of a response: a dict as it is, anything else as
\* {"code": -32000, "message": str(error)}
error_object(e) ==
    IF "str" \notin DOMAIN e THEN e
    ELSE [code |-> -32000, message |-> e.str]

notification(method, params) ==
    [jsonrpc |-> "2.0", method |-> method, params |-> params]

result_response(d) ==
    [jsonrpc |-> "2.0", id |-> Get(d, "id"), result |-> d["result"]]

error_response(d) ==
    [jsonrpc |-> "2.0", id |-> Get(d, "id"),
     error |-> error_object(d["error"])]

notification_types == {"welcome", "ping", "error", "connection"}

\* mutant: every dict without "jsonrpc" is wrapped as notifications/message
jsonrpc_data_message_only(d) ==
    IF "jsonrpc" \in DOMAIN d THEN d
    ELSE notification("notifications/message", d)

\* jsonrpc_data as to_sse_format computes it from a dict, branch by branch
jsonrpc_data(d) ==
    IF "jsonrpc" \in DOMAIN d THEN d
    ELSE IF "type" \in DOMAIN d THEN
        IF d["type"] \in notification_types
        THEN notification("notifications/" \o d["type"], RemoveKeys(d, {"type"}))
        ELSE IF "result" \in DOMAIN d THEN result_response(d)
        ELSE IF "error" \in DOMAIN d THEN error_response(d)
        ELSE notification("notifications/" \o d["type"], RemoveKeys(d, {"type"}))
    ELSE IF "arguments" \in DOMAIN d
    THEN Update([jsonrpc |-> "2.0"],
                DictSet(RemoveKeys(d, {"arguments"}), "params", d["arguments"]))
    ELSE IF "method" \in DOMAIN d THEN Update([jsonrpc |-> "2.0"], d)
    ELSE IF "result" \in DOMAIN d THEN result_response(d)
    ELSE IF "error" \in DOMAIN d THEN error_response(d)
    ELSE notification("notifications/message", d)

\* the newline character
NL == [nl |-> "\n"]

\* sep.join(lines), a line being the sequence of its pieces
RECURSIVE join(_, _)
join(sep, lines) ==
    IF Len(lines) = 0 THEN <<>>
    ELSE IF Len(lines) = 1 THEN lines[1]
    ELSE lines[1] \o <<sep>> \o join(sep, Tail(lines))

\* text.split(sep)
RECURSIVE split(_, _)
split(text, sep) ==
    IF \A i \in 1..Len(text) : text[i] # sep THEN <<text>>
    ELSE LET i == CHOOSE j \in 1..Len(text) :
                    text[j] = sep /\ \A k \in 1..(j - 1) : text[k] # sep
         IN  <<SubSeq(text, 1, i - 1)>>
                \o split(SubSeq(text, i + 1, Len(text)), sep)

\* the data line: f"data: {json.dumps(jsonrpc_data)}", f"data: {self.data}"
\* for a str, f"data: {json.dumps(self.data)}" for anything else
data_line(data) ==
    IF "dict" \in DOMAIN data
    THEN [data |-> json_dumps(jsonrpc_data(data.dict))]
    ELSE IF "str" \in DOMAIN data THEN [data |-> [raw |-> data.str]]
    ELSE [data |-> json_dumps(data.list)]

\* the list lines of to_sse_format before the join
sse_lines(msg) ==
    << <<[id |-> msg.id]>>, <<[event |-> msg.event]>>,
       <<data_line(msg.data)>>, <<>> >>

SSEMessage_to_sse_format(msg) == join(NL, sse_lines(msg))

\* the keys of the dicts a caller passes, and the value under each key
DataKeys ==
    {"jsonrpc", "type", "arguments", "method", "result", "error", "id", "key"}

DataTypes == notification_types \cup {"progress"}

DataErrors == {[str |-> "boom"], [code |-> -32001, message |-> "boom"]}

DataValue(k, t, e) ==
    CASE k = "jsonrpc" -> "2.0"
      [] k = "type" -> t
      [] k = "arguments" -> [query |-> "printer"]
      [] k = "method" -> "tools/call"
      [] k = "result" -> [status |-> "ok"]
      [] k = "error" -> e
      [] k = "id" -> ReqId
      [] k = "key" -> "value"

DataDicts ==
    {[k \in F |-> DataValue(k, t, e)] :
        F \in SUBSET DataKeys, t \in DataTypes, e \in DataErrors}

Messages ==
    {[id |-> "test-123", event |-> "test-event", data |-> x] :
        x \in {[dict |-> d] : d \in DataDicts}
                \cup {[str |-> "/message"], [list |-> <<"a">>]}}

ToSseFormat ==
    /\ Pending("to_sse_format")
    /\ fcall' = Return(fcall, SSEMessage_to_sse_format(fcall.arg))
    /\ last' = Done("call", None, None)
    /\ PureRest

NextFramer == ToSseFormat

\* datetime.isoformat()
isoformat(t) == [iso |-> t]

\* mutant: auth_info is rendered as it is stored
get_session_info_plain(id, session) ==
    [session_id |-> id,
     created_at |-> isoformat(session.created_at),
     last_activity |-> isoformat(now),
     is_active |-> session.is_active,
     state_keys |-> DOMAIN session.state,
     auth_info |-> session.auth_info]

\* SessionManager.get_session_info for a session in the table: get_session
\* has set last_activity to now, and every value of auth_info is "***"
get_session_info(id, session) ==
    [session_id |-> id,
     created_at |-> isoformat(session.created_at),
     last_activity |-> isoformat(now),
     is_active |-> session.is_active,
     state_keys |-> DOMAIN session.state,
     auth_info |-> [k \in DOMAIN session.auth_info |-> "***"]]

\* the auth_info maps of the sessions: nothing, an Authorization header, an
\* api_key, or both, each with one of two secrets
AuthInfos ==
    {[k \in K |-> v[k]] :
        K \in SUBSET {"authorization", "api_key"},
        v \in [{"authorization", "api_key"} -> {"secret-1", "secret-2"}]}

SessionRecords ==
    {[SessionData(0, a) EXCEPT !.state = st] :
        a \in AuthInfos, st \in {EmptyDict, [k \in StateKeys |-> "v"]}}

\* get_session_info applied to the same id in two runs
GetSessionInfo ==
    /\ Pending("get_session_info")
    /\ fcall' = Return(fcall,
                    [a |-> get_session_info(fcall.arg.id, fcall.arg.a),
                     b |-> get_session_info(fcall.arg.id, fcall.arg.b)])
    /\ last' = Done("call", None, None)
    /\ PureRest

NextSessionInfo == GetSessionInfo

----------------------------------------------------------------------------

InitTransport ==
    /\ now = 0
    /\ sessions = EmptyDict
    /\ thr = [t \in Threads |-> Idle]
    /\ last = Done("init", None, None)
    /\ hpc = "idle"
    /\ req = None
    /\ resp = None
    /\ hsid = None
    /\ did = None
    /\ gen = NoStream
    /\ lsessions = EmptyDict
    /\ lqueue = EmptyDict
    /\ lgen = EmptyDict
    /\ posts = [p \in Posters |-> Idle]
    /\ lhist = NoHistory
    /\ connections = EmptyDict
    /\ cstream = EmptyDict
    /\ chist = NoConnHistory
    /\ kstream = [k \in KStreams |-> [pc |-> "none"]]
    /\ mint = NewCandidate(0)

Init ==
    /\ InitTransport
    /\ fcall = NoCall

InitClassify ==
    /\ InitTransport
    /\ fcall \in {Call("_get_message_type", b) : b \in MessageBodies}

Next ==
    \/ \E t \in Threads, cand \in IDs : CreateSessionBegin(t, cand)
    \/ \E t \in Threads : CreateSessionCommit(t)
    \/ \E id \in IDs : ValidateSession(id)
    \/ \E id \in IDs : GetSession(id)
    \/ \E id \in IDs : UpdateSessionActivity(id)
    \/ \E t \in Threads, id \in IDs : UpdateSessionStateBegin(t, id)
    \/ \E t \in Threads, k \in StateKeys, v \in StateVals : UpdateSessionStateCommit(t, k, v)
    \/ \E id \in IDs : RemoveSession(id)
    \/ CleanupExpiredSessions
    \/ Tick

Spec == Init /\ [][Next]_vars

SpecHTTP == Init /\ [][NextHTTP]_vars

SpecStream == Init /\ [][NextStream]_vars

SpecLegacy == Init /\ [][NextLegacy]_vars

SpecSessions == Init /\ [][NextSessions]_vars

SpecClassify == InitClassify /\ [][NextClassify]_vars

InitFramer ==
    /\ InitTransport
    /\ fcall \in {Call("to_sse_format", m) : m \in Messages}

SpecFramer == InitFramer /\ [][NextFramer]_vars

InitSessionInfo ==
    /\ InitTransport
    /\ fcall \in {Call("get_session_info", [id |-> "s1", a |-> x, b |-> y]) :
                    x \in SessionRecords, y \in SessionRecords}

SpecSessionInfo == InitSessionInfo /\ [][NextSessionInfo]_vars

SpecConnections == Init /\ [][NextConnections]_vars

SpecKeepAlive == Init /\ [][NextKeepAlive]_vars

\* the three kinds of stream are served by three managers that share no
\* state; a behaviour serves streams of the kind its initial state draws
Serving(k) == fcall = Call("serve", k)

InitCancel ==
    /\ InitTransport
    /\ fcall \in {Call("serve", k) : k \in KStreams}

NextCancel ==
    \/ Serving("streamable") /\ NextStream
    \/ Serving("bearer") /\ NextLegacy
    \/ Serving("api_key") /\ NextConnections

SpecCancel == InitCancel /\ [][NextCancel]_vars

SpecMint == Init /\ [][NextMint]_vars

\* start_cleanup_task is called when the server starts, and the task loops
\* for as long as the server runs
FairConnections == SpecConnections /\ WF_vars(SweepRun)

\* the running server: the clock advances and the event loop runs every
\* generator that is ready
FairRunning ==
    /\ Init /\ [][NextRunning]_vars
    /\ WF_vars(Tick)
    /\ \A id \in LIDs : WF_vars(LGenStep(id))

\* the event loop runs every legacy generator that is ready
FairLegacy ==
    /\ SpecLegacy
    /\ \A id \in LIDs : WF_vars(LGenStep(id))

\* the event loop runs a generator that is ready: its first step, its loop
\* test, and its wake-up when the sleep is over
FairStream ==
    /\ SpecStream
    /\ WF_vars(GenStart)
    /\ WF_vars(GenLoop)
    /\ WF_vars(GenWake)

----------------------------------------------------------------------------
(* Session manager claims (checked under Spec) *)

MaxAgeSeconds == max_age_minutes * 60

\* C1: whenever validate_session(id) is called, in any interleaving of the
\* manager's operations and the clock, it returns true if and only if id is
\* in the session table at that moment, the session's active flag is true
\* and now - created_at <= max_age.
C1_ValidateIff ==
    [][last'.op = "validate_session" =>
        (last'.ret <=>
            /\ last'.id \in DOMAIN sessions
            /\ sessions[last'.id].is_active
            /\ now - sessions[last'.id].created_at <= MaxAgeSeconds)]_vars

\* a session validated as true exactly at age max_age
C1_Witness ==
    /\ last.op = "validate_session"
    /\ last.ret = TRUE
    /\ last.id \in DOMAIN sessions
    /\ now - sessions[last.id].created_at = MaxAgeSeconds

\* C2: the id create_session inserts is not in the table at the moment of
\* insertion, whatever candidate was generated before the lock and whatever
\* other threads inserted meanwhile: the table grows by exactly that one
\* entry and every existing record is left as it was.
C2_CreateFresh ==
    [][last'.op = "create_session" =>
        /\ last'.id \notin DOMAIN sessions
        /\ DOMAIN sessions' = DOMAIN sessions \cup {last'.id}
        /\ Cardinality(DOMAIN sessions') = Cardinality(DOMAIN sessions) + 1
        /\ \A s \in DOMAIN sessions : sessions'[s] = sessions[s]]_vars

\* a create_session has inserted an id that another thread, still before
\* the lock, holds as its candidate
C2_Witness ==
    /\ last.op = "create_session"
    /\ last.id \in DOMAIN sessions
    /\ \E t \in Threads :
        thr[t].op = "create_session" /\ thr[t].cand = last.id

----------------------------------------------------------------------------
(* /mcp claims (checked under SpecHTTP) *)

InFlight == hpc # "idle"

Finished == hpc = "done"

OriginAdmitted(r) == r.origin = None \/ r.origin \in allowed_origins

AcceptsBoth(r) ==
    "application/json" \in r.accept /\ "text/event-stream" \in r.accept

IsRequestBody(b) ==
    /\ b.shape = "object"
    /\ b.jsonrpc = "2.0"
    /\ {"id", "method"} \subseteq b.fields

IsInitializeRequest(r) ==
    /\ r.method = "POST"
    /\ IsRequestBody(r.body)
    /\ r.body.method = "initialize"

\* the request reaches the message routing of the POST handler
PostRouted(r) ==
    /\ r.method = "POST"
    /\ OriginAdmitted(r)
    /\ AcceptsBoth(r)
    /\ r.body.shape = "object"

IsNotificationOrResponse(b) ==
    /\ b.shape = "object"
    /\ b.jsonrpc = "2.0"
    /\ \/ "method" \in b.fields /\ "id" \notin b.fields
       \/ "method" \notin b.fields /\ "id" \in b.fields
            /\ ("result" \in b.fields \/ "error" \in b.fields)

\* known and not older than max_age
SessionLive(id) ==
    /\ id \in DOMAIN sessions
    /\ now - sessions[id].created_at <= MaxAgeSeconds

\* C3: an initialize request that reaches the POST handler's routing is
\* never answered without minting: the handler creates a session whose id
\* was not in the table at that moment, leaves every other session as it
\* was, stores the Authorization header in the new session iff the request
\* carried one, and answers 200 with the JSON-RPC response to the request
\* and Mcp-Session-Id set to the new id.
C3_InitializeMints ==
    [][/\ (hpc = "idle" /\ hpc' # "idle" /\ IsInitializeRequest(req')
            /\ PostRouted(req'))
          => hpc' = "initialize"
       /\ (hpc = "initialize" /\ hpc' # "initialize")
          => LET id == resp'.session_header IN
             /\ hpc' = "done"
             /\ id \in IDs
             /\ id \notin DOMAIN sessions
             /\ DOMAIN sessions' = DOMAIN sessions \cup {id}
             /\ \A s \in DOMAIN sessions : sessions'[s] = sessions[s]
             /\ sessions'[id].created_at = now
             /\ sessions'[id].auth_info =
                   (IF req.authorization = None THEN EmptyDict
                    ELSE [k \in {"authorization"} |-> req.authorization])
             /\ resp'.status = 200
             /\ resp'.body = ResultBody(req.body.id, InitializeResult)
             /\ did'.created = id]_vars

\* a second initialize, carrying an Authorization header, has been answered
\* while the session of an earlier one is still in the table
C3_Witness ==
    /\ Finished
    /\ IsInitializeRequest(req)
    /\ req.authorization # None
    /\ did.created # None
    /\ resp.session_header = did.created
    /\ Cardinality(DOMAIN sessions) = 2
    /\ did.created \in DOMAIN sessions
    /\ sessions[did.created].auth_info # EmptyDict

CredentialAccepted(r) ==
    /\ validate_credentials(extract_credentials(r))
    /\ authenticate(extract_credentials(r))

\* C4: a GET or POST on /mcp that carries no credential the auth provider
\* accepts never creates a session, never has its body dispatched, never
\* opens a stream, and is answered with an error.
C4_AuthBeforeSession ==
    (InFlight /\ ~CredentialAccepted(req)) =>
        /\ did.created = None
        /\ ~did.dispatched
        /\ ~did.stream
        /\ Finished => resp.status >= 400

\* the exchanges that need a session: a GET asking for an event stream, and
\* a POSTed request other than initialize, notification or response
NeedsSession(r) ==
    /\ OriginAdmitted(r)
    /\ \/ r.method = "GET" /\ "text/event-stream" \in r.accept
       \/ /\ PostRouted(r)
          /\ IsRequestBody(r.body) \/ IsNotificationOrResponse(r.body)
          /\ ~IsInitializeRequest(r)

SessionError(status) ==
    /\ resp.status = status
    /\ IsJsonRpcError(resp.body)
    /\ resp.body.error.code = -32000
    /\ did.created = None
    /\ ~did.dispatched
    /\ ~did.stream
    /\ ~did.touched

\* C5: for an exchange that needs a session (it passed the origin guard,
\* the Accept negotiation and, for a POST, body parsing), a missing
\* Mcp-Session-Id header is answered 400 and an id that is unknown or
\* older than max_age when it is validated is answered 404, both with
\* JSON-RPC error -32000 and with nothing dispatched, no stream opened and
\* no session touched; otherwise the message is dispatched (a GET opens its
\* stream), update of the session's activity is performed (last_activity
\* becomes now if the session is still in the table), and the response
\* carries the request's Mcp-Session-Id.
C5_SessionRequired ==
    /\ [](Finished /\ NeedsSession(req) =>
            /\ req.sid = None => SessionError(400)
            /\ req.sid # None =>
                \/ SessionError(404) /\ did.validated
                \/ /\ resp.status \in {200, 202}
                   /\ resp.session_header = req.sid
                   /\ did.validated
                   /\ did.dispatched \/ did.stream
                   /\ did.touched
                   /\ did.created = None)
    /\ [][/\ (hpc = "validate" /\ hpc' # "validate")
             => /\ NeedsSession(req)
                /\ SessionLive(hsid) <=> ~(hpc' = "done" /\ resp'.status = 404)
                /\ (SessionLive(hsid) /\ hpc' = "done")
                      => sessions'[hsid].last_activity = now
          /\ (hpc = "respond" /\ hpc' = "done" /\ hsid \in DOMAIN sessions)
             => sessions'[hsid].last_activity = now]_vars

\* a request whose session had expired has been answered 404
C5_Witness ==
    /\ Finished
    /\ NeedsSession(req)
    /\ req.method = "POST"
    /\ IsRequestBody(req.body)
    /\ req.sid # None
    /\ resp.status = 404
    /\ now = MaxTicks * TickSeconds

\* C6: a POSTed JSON-RPC request is answered either with status 200 and a
\* JSON-RPC response carrying the request's id, or with a 4xx whose body is
\* a JSON-RPC error carrying the request's id or null.
C6_RequestOutcome ==
    (Finished /\ req.method = "POST" /\ IsRequestBody(req.body)) =>
        \/ /\ resp.status = 200
           /\ IsJsonRpcResponse(resp.body)
           /\ resp.body.id = req.body.id
        \/ /\ resp.status \in 400..499
           /\ IsJsonRpcError(resp.body)
           /\ resp.body.id \in {req.body.id, None}

EmptyBody == [raw |-> ""]

\* C7: a notification or response POSTed with a valid session is answered
\* with status 202, an empty body and the request's Mcp-Session-Id.
C7_Accepted202 ==
    (/\ Finished
     /\ PostRouted(req)
     /\ IsNotificationOrResponse(req.body)
     /\ did.validated
     /\ resp.status # 404) =>
        /\ resp.status = 202
        /\ resp.body = EmptyBody
        /\ resp.session_header = req.sid

\* C8: a POST that passed the origin guard and whose Accept header lacks
\* application/json or text/event-stream is answered, before anything else
\* happens, with 400 and the JSON-RPC error -32600 (id null) whose message
\* names both media types; no session is created, validated or touched and
\* nothing is dispatched. Conversely an exchange that gets past that point
\* carries both media types.
C8_AcceptBoth ==
    (InFlight /\ req.method = "POST" /\ OriginAdmitted(req)) =>
        IF AcceptsBoth(req)
        THEN ~(Finished /\ resp.status = 400 /\ resp.body.error.message =
                "Invalid Accept header. Must include both application/json and text/event-stream")
        ELSE /\ Finished
             /\ resp.status = 400
             /\ resp.body = ErrorBody(None, -32600,
                    "Invalid Accept header. Must include both application/json and text/event-stream")
             /\ did = NothingDone

\* an initialize request with Accept: text/event-stream alone was refused
C8_Witness ==
    /\ Finished
    /\ IsInitializeRequest(req)
    /\ OriginAdmitted(req)
    /\ req.accept = {"text/event-stream"}
    /\ resp.status = 400
    /\ did.created = None

\* C9: a POST (origin admitted, Accept with both media types) whose body is
\* a JSON array is answered 400 with -32600, and one whose body is not JSON
\* 400 with -32700, both with id null; nothing is dispatched and no session
\* is created, validated or touched, also when the array holds an
\* initialize request.
C9_BatchAndParseError ==
    (/\ InFlight
     /\ req.method = "POST" /\ OriginAdmitted(req) /\ AcceptsBoth(req)
     /\ req.body.shape \in {"array", "garbage"}) =>
        /\ Finished
        /\ resp.status = 400
        /\ IsJsonRpcError(resp.body)
        /\ resp.body.id = None
        /\ resp.body.error.code =
              (IF req.body.shape = "array" THEN -32600 ELSE -32700)
        /\ did = NothingDone

\* a batch holding an initialize request was refused while a session exists
C9_Witness ==
    /\ Finished
    /\ req.method = "POST"
    /\ req.body.shape = "array"
    /\ req.body.items[1] = InitializeBody
    /\ resp.status = 400
    /\ resp.body.error.code = -32600
    /\ DOMAIN sessions # {}

\* C10: a GET or POST whose Origin header is not in the allow-list is
\* answered 403 at once: no session is created, validated or touched,
\* nothing is dispatched and no stream is opened. A request without an
\* Origin header is never answered 403.
C10_OriginGuard ==
    InFlight =>
        IF req.origin # None /\ req.origin \notin allowed_origins
        THEN /\ Finished
             /\ resp.status = 403
             /\ did = NothingDone
        ELSE ~(Finished /\ resp.status = 403)

\* an initialize request from a foreign origin was refused, and one without
\* Origin would have been served
C10_Witness ==
    /\ Finished
    /\ IsInitializeRequest(req)
    /\ AcceptsBoth(req)
    /\ req.origin = "https://evil.example"
    /\ resp.status = 403
    /\ did.created = None

----------------------------------------------------------------------------
(* Streamable GET stream claims (checked under SpecStream / FairStream) *)

EndpointNotification ==
    [jsonrpc |-> "2.0", method |-> "notifications/endpoint",
     params |-> [endpoint |-> "/mcp"]]

\* C11: on every stream the GET handler establishes, the first frame the
\* generator yields is an endpoint event whose data is the notification
\* notifications/endpoint with params {endpoint: "/mcp"}; no later frame is
\* an endpoint event, so it is emitted exactly once and no ping precedes
\* it; a generator that has run its first step has emitted it, and the one
\* step that emits it is the generator's first.
C11_EndpointFirst ==
    /\ [](/\ gen.pc = "start" => gen.frames = <<>>
          /\ gen.pc \in {"loop", "sleep", "ended"} => gen.frames # <<>>
          /\ gen.frames # <<>> =>
                /\ gen.frames[1].event = "endpoint"
                /\ gen.frames[1].data = EndpointNotification
                /\ \A i \in 2..Len(gen.frames) : gen.frames[i].event = "ping")
    /\ [][(gen.pc = "start" /\ gen'.pc = "loop")
            => Len(gen'.frames) = 1]_vars

\* the endpoint frame was followed by two pings
C11_Witness ==
    /\ Len(gen.frames) = 3
    /\ gen.frames[1].event = "endpoint"
    /\ gen.frames[2].event = "ping"
    /\ gen.frames[3].event = "ping"

SessionValid(id) ==
    /\ id \in DOMAIN sessions
    /\ sessions[id].is_active
    /\ now - sessions[id].created_at <= MaxAgeSeconds

\* C12: the generator yields a ping only in its loop step and only while
\* its session is valid at that moment (known, active, not older than
\* max_age), and each loop step taken with a valid session yields exactly
\* one ping and then sleeps; the generator ends of its own accord only in
\* a loop step that finds the session invalid, and then without a ping.
\* Once the session is invalid the generator never pings again and, when
\* its sleep is over, it terminates (unless the client has disconnected or
\* the same id has been minted again meanwhile).
C12_PingUntilInvalid ==
    /\ [][/\ gen'.frames # gen.frames /\ gen.pc # "start" /\ gen'.pc # "start"
             => /\ gen.pc = "loop" /\ gen'.pc = "sleep"
                /\ SessionValid(gen.sid)
                /\ gen'.frames = Append(gen.frames, gen'.frames[Len(gen'.frames)])
                /\ gen'.frames[Len(gen'.frames)].event = "ping"
          /\ (gen.pc = "loop" /\ gen'.pc # "loop" /\ gen'.pc # "cancelled")
             => IF SessionValid(gen.sid)
                THEN gen'.pc = "sleep" /\ Len(gen'.frames) = Len(gen.frames) + 1
                ELSE gen'.pc = "ended" /\ gen'.frames = gen.frames
          /\ (gen.pc # "ended" /\ gen'.pc = "ended")
             => gen.pc = "loop" /\ ~SessionValid(gen.sid)]_vars
    /\ (GenActive /\ ~SessionValid(gen.sid))
          ~> (~GenActive \/ SessionValid(gen.sid))

\* a stream that pinged has ended because its session had expired
C12_Witness ==
    /\ gen.pc = "ended"
    /\ Len(gen.frames) >= 2
    /\ gen.sid \notin DOMAIN sessions
    /\ last = Done("sse_generator", gen.sid, "ended")

----------------------------------------------------------------------------
(* Legacy transport claims (checked under SpecLegacy, FairLegacy and       *)
(* SpecSessions)                                                           *)

MessageFrames(id) == SelectSeq(lgen[id].frames, LAMBDA f : f.event = "message")

\* the messages delivered on the stream of id, in the order of their frames
Delivered(id) ==
    [i \in 1..Len(MessageFrames(id)) |-> MessageFrames(id)[i].data]

\* the messages POST /messages enqueued for id, in the order of enqueueing
Enqueued(id) == [i \in 1..Len(lhist.enq[id]) |-> lhist.enq[id][i].msg]

\* C13: on every legacy stream the messages delivered as event: message
\* frames are, in this order, the first messages that were enqueued for the
\* session (delivery preserves the order of enqueueing), and no message is
\* delivered twice: the enqueued messages are pairwise different and the
\* delivered ones are a prefix of them.
C13_FifoDelivery ==
    \A id \in DOMAIN lgen :
        /\ Len(Delivered(id)) <= Len(Enqueued(id))
        /\ \A i \in 1..Len(Delivered(id)) : Delivered(id)[i] = Enqueued(id)[i]
        /\ \A i, j \in 1..Len(Enqueued(id)) :
              i # j => Enqueued(id)[i].id # Enqueued(id)[j].id
        /\ \A i, j \in 1..Len(Delivered(id)) :
              i # j => Delivered(id)[i] # Delivered(id)[j]

\* two POSTs overtook each other (the later admitted one was enqueued
\* first), a keep-alive was sent, and both messages were delivered
C13_Witness ==
    \E id \in DOMAIN lgen :
        /\ Len(Delivered(id)) = 2
        /\ Delivered(id)[1].id = MsgId(2)
        /\ Delivered(id)[2].id = MsgId(1)
        /\ lgen[id].ka = 1

AcceptedOn(id, n) ==
    /\ id \in DOMAIN lhist.enq
    /\ MsgId(n) \in lhist.accepted
    /\ \E i \in 1..Len(lhist.enq[id]) : lhist.enq[id][i].msg.id = MsgId(n)

DeliveredOn(id, n) ==
    /\ id \in DOMAIN lgen
    /\ \E i \in 1..Len(lgen[id].frames) :
        /\ lgen[id].frames[i].event = "message"
        /\ lgen[id].frames[i].data.id = MsgId(n)

\* C14: in every state the messages delivered on a stream followed by the
\* messages still in the session's queue are exactly the messages enqueued
\* (nothing is lost, whatever timeouts occurred); a timeout leaves the queue
\* as it was; and every message whose POST was answered {"status":
\* "accepted"} is eventually delivered on the session's stream as an
\* event: message frame, unless the stream is closed.
C14_AcceptedDelivered ==
    /\ [](\A id \in DOMAIN lgen : Delivered(id) \o lqueue[id] = Enqueued(id))
    /\ [][\A id \in DOMAIN lgen :
            (lgen'[id].ka # lgen[id].ka) =>
                /\ lqueue'[id] = lqueue[id]
                /\ Len(lgen'[id].frames) = Len(lgen[id].frames) + 1
                /\ lgen'[id].frames[Len(lgen'[id].frames)].event = None]_vars
    /\ \A id \in LIDs : \A n \in 1..MaxMsgs :
        AcceptedOn(id, n) ~> (DeliveredOn(id, n) \/ ~StreamOpen(id))

\* a timeout fired although a message had just been enqueued: the stream
\* sent a keep-alive and delivered the message right after it
C14_Witness ==
    \E id \in DOMAIN lgen :
        /\ lgen[id].raced
        /\ Len(lgen[id].frames) = 3
        /\ lgen[id].frames[2].event = None
        /\ lgen[id].frames[3].event = "message"
        /\ lgen[id].frames[3].data.id \in lhist.accepted

\* C15: a POST to /messages that names a session not in the table is
\* answered 404, and one whose token differs from the token the session
\* was created with is answered 401; in both cases nothing else happens
\* (no handler goes on, no queue, session or activity time changes).
\* Every handler past that point presented the session's token, and so
\* did the POST of every message ever enqueued for a session.
C15_TokenMatchesSession ==
    /\ [][(last'.op = "messages" /\ last'.ret.stage = "receive") =>
            /\ \/ last'.id \notin DOMAIN lsessions
               \/ lsessions[last'.id].auth_token # last'.ret.token
            /\ last'.ret.reply.status =
                  (IF last'.id \notin DOMAIN lsessions THEN 404 ELSE 401)
            /\ UNCHANGED <<lsessions, lqueue, lgen, posts, lhist>>]_vars
    /\ [](\A p \in Posters :
            posts[p] # Idle => posts[p].token = lhist.owner[posts[p].sid])
    /\ [](\A id \in DOMAIN lhist.enq : \A i \in 1..Len(lhist.enq[id]) :
            lhist.enq[id][i].token = lhist.owner[id])
    /\ [][\A id \in DOMAIN lqueue :
            lqueue'[id] # lqueue[id] =>
                \E p \in Posters :
                    /\ posts[p] # Idle
                    /\ posts[p].sid = id
                    /\ posts[p].token = lhist.owner[id]
                    /\ posts'[p] = Idle]_vars

\* a POST presenting the token of another session was refused after time
\* had passed, while a message enqueued with the right token is waiting
C15_Witness ==
    /\ last.op = "messages"
    /\ last.ret.stage = "receive"
    /\ last.ret.reply.status = 401
    /\ last.ret.token \in Tokens
    /\ \E other \in DOMAIN lsessions :
        other # last.id /\ lsessions[other].auth_token = last.ret.token
    /\ lqueue[last.id] # <<>>
    /\ now > lsessions[last.id].last_activity

\* C16: every session queue has a bound and never holds more messages than
\* its bound.
C16_QueueBounded ==
    \A id \in DOMAIN lqueue :
        lqueue[id] # <<>> =>
            /\ queue_maxsize > 0
            /\ Len(lqueue[id]) <= queue_maxsize

EndpointFrames(id) == SelectSeq(lgen[id].frames, LAMBDA f : f.event = "endpoint")

\* C17: a GET /sse with a Bearer token adds exactly one session, under an
\* id that no session and no stream had before, and leaves the other
\* sessions as they were; the stream it opens has emitted nothing before
\* its generator runs, the generator's first step emits the endpoint event
\* whose data is /messages?session_id=<id> with the id of that session,
\* and no other frame of the stream is an endpoint event.
C17_LegacyEndpointFirst ==
    /\ [](\A id \in DOMAIN lgen :
            /\ id \in DOMAIN lhist.owner
            /\ lgen[id].pc = "start" => lgen[id].frames = <<>>
            /\ lgen[id].pc \notin {"start", "cancelled"} => lgen[id].frames # <<>>
            /\ lgen[id].frames # <<>> =>
                /\ lgen[id].frames[1] =
                      EventFrame("endpoint", "/messages?session_id=" \o id)
                /\ Len(EndpointFrames(id)) = 1)
    /\ [][DOMAIN lgen' # DOMAIN lgen =>
            \E id \in LIDs :
                /\ id \notin DOMAIN lsessions
                /\ id \notin DOMAIN lgen
                /\ DOMAIN lgen' = DOMAIN lgen \cup {id}
                /\ DOMAIN lsessions' = DOMAIN lsessions \cup {id}
                /\ \A s \in DOMAIN lsessions : lsessions'[s] = lsessions[s]
                /\ \A s \in DOMAIN lgen : lgen'[s] = lgen[s]
                /\ lgen'[id].frames = <<>>
                /\ lqueue'[id] = <<>>]_vars

\* two streams have sent their endpoint events, each naming its own session
C17_Witness ==
    /\ DOMAIN lgen = LIDs
    /\ \A id \in LIDs :
        /\ id \in DOMAIN lsessions
        /\ lgen[id].frames = <<EventFrame("endpoint", "/messages?session_id=" \o id)>>

\* a response with the value of every timestamp field blanked
StripTimestamp(m) ==
    IF "result" \in DOMAIN m /\ "timestamp" \in DOMAIN m.result
    THEN [m EXCEPT !.result.timestamp = "*"]
    ELSE m

\* C18: every response POST /messages enqueues equals, up to timestamp
\* values, the response POST /mcp returns for the same request.
C18_SameDispatch ==
    \A id \in DOMAIN lhist.enq : \A i \in 1..Len(lhist.enq[id]) :
        \E api \in BackendStates :
            StripTimestamp(lhist.enq[id][i].msg) =
                StripTimestamp(_process_message_with(lhist.enq[id][i].request, api))

----------------------------------------------------------------------------
(* Dispatcher errors on POST /mcp (checked under SpecHTTP)                  *)

KnownMethods == {"initialize", "tools/list", "tools/call", "ping"}

\* the exchange is a JSON-RPC request whose session was validated and whose
\* message the dispatcher has processed
Dispatched ==
    /\ hpc \in {"respond", "done"}
    /\ req.method = "POST"
    /\ IsRequestBody(req.body)
    /\ ~IsInitializeRequest(req)
    /\ did.validated
    /\ did.dispatched

\* the tool call of the request, when the ticket API is in state api
ToolCallOutcome(api) ==
    _handle_method_tools_call(req.body.id, req.body.params, api)

\* C19: a request dispatched in a validated session is answered with HTTP
\* 200 and a JSON-RPC response carrying the request's id, whatever the
\* handler did: a method outside the table gives error -32601, and a
\* tools/call whose handler raises gives error -32603 whose data is the text
\* of the exception. The dispatch step leaves the session table as it was,
\* and the steps from dispatch to the response neither remove the session
\* nor change whether it is valid.
C19_DispatchErrors ==
    /\ [](Dispatched =>
            /\ resp.status = 200
            /\ IsJsonRpcResponse(resp.body)
            /\ resp.body.id = req.body.id
            /\ resp.session_header = req.sid
            /\ req.body.method \notin KnownMethods =>
                /\ IsJsonRpcError(resp.body)
                /\ resp.body.error.code = -32601
            /\ req.body.method = "tools/call" =>
                \E api \in BackendStates :
                    IF ToolCallOutcome(api).raised
                    THEN /\ IsJsonRpcError(resp.body)
                         /\ resp.body.error.code = -32603
                         /\ "data" \in DOMAIN resp.body.error
                         /\ resp.body.error.data = ToolCallOutcome(api).message
                    ELSE resp.body = ToolCallOutcome(api).value)
    /\ [][/\ (hpc = "dispatch" /\ hpc' # "dispatch")
             => /\ hpc' = "respond"
                /\ sessions' = sessions
          /\ (hpc \in {"dispatch", "respond"} /\ hpc' # hpc)
             => /\ DOMAIN sessions' = DOMAIN sessions
                /\ validate_session_ret(hsid)' = validate_session_ret(hsid)]_vars

\* a fetch whose handler raised has been answered 200 with -32603, and the
\* session of the request is still valid
C19_Witness ==
    /\ Finished
    /\ Dispatched
    /\ req.body.method = "tools/call"
    /\ req.body.params.name = "fetch"
    /\ resp.status = 200
    /\ IsJsonRpcError(resp.body)
    /\ resp.body.error.code = -32603
    /\ resp.body.id = ReqId
    /\ did.touched
    /\ validate_session_ret(hsid)

FailingToolCall ==
    /\ Dispatched
    /\ req.body.method = "tools/call"
    /\ req.body.params.name \notin {"search"}

FailureText ==
    IF req.body.params.name = "fetch"
    THEN "Failed to fetch ticket: " \o dict_get(req.body.params.arguments, "id", "")
    ELSE "Unknown tool: " \o req.body.params.name

\* C20 as stated: a tools/call naming an unknown tool, or fetching a ticket
\* the backend does not return, is answered with error -32603 whose message
\* field holds "Unknown tool: <name>", respectively contains "Failed to
\* fetch ticket: <id>".
C20_TextInMessage ==
    FailingToolCall =>
        /\ IsJsonRpcError(resp.body)
        /\ resp.body.error.code = -32603
        /\ resp.body.error.message = FailureText

\* C20 as amended: such a call is answered with error -32603 whose message
\* field is "Internal error" and whose data field is "Unknown tool: <name>",
\* respectively "Failed to fetch ticket: <id>".
C20_TextInData ==
    FailingToolCall =>
        /\ IsJsonRpcError(resp.body)
        /\ resp.body.error.code = -32603
        /\ resp.body.error.message = "Internal error"
        /\ resp.body.error.data = FailureText

\* the call of the tool "nope" has been answered
C20_Witness ==
    /\ Finished
    /\ FailingToolCall
    /\ req.body.params.name = "nope"
    /\ resp.body.error.data = "Unknown tool: nope"

----------------------------------------------------------------------------
(* Message classification (checked under SpecClassify)                     *)

\* the kind a message has by the fields it carries
KindByPresence(F) ==
    IF "method" \in F /\ "id" \in F THEN "request"
    ELSE IF "method" \in F THEN "notification"
    ELSE IF ("result" \in F \/ "error" \in F) /\ "id" \in F THEN "response"
    ELSE "invalid"

\* C21 as stated: the kind of any JSON object is decided by which of the
\* fields method, id, result and error it carries, whatever their values and
\* the values of its other fields.
C21_PresenceOnly ==
    (Returns("_get_message_type") /\ fcall.arg.shape = "object") =>
        fcall.ret = KindByPresence(fcall.arg.fields)

\* C21 as amended: a JSON object whose jsonrpc field is "2.0" has the kind
\* decided by which of the fields method, id, result and error it carries,
\* whatever the values of these fields; an object whose jsonrpc field is
\* absent or has another value, and a value that is not an object, are
\* invalid.
C21_PresenceGivenVersion ==
    Returns("_get_message_type") =>
        fcall.ret =
            (IF fcall.arg.shape = "object" /\ fcall.arg.jsonrpc = "2.0"
             THEN KindByPresence(fcall.arg.fields)
             ELSE "invalid")

\* an object with method, result and an id whose value is null has been
\* classified as a request
C21_Witness ==
    /\ Returns("_get_message_type")
    /\ fcall.arg.shape = "object"
    /\ fcall.arg.jsonrpc = "2.0"
    /\ {"method", "id", "result"} \subseteq fcall.arg.fields
    /\ fcall.arg.id = None
    /\ fcall.ret = "request"

----------------------------------------------------------------------------
(* The search tool on the legacy transport (checked under SpecLegacy)      *)

IsSearchCall(b) ==
    /\ b.shape = "object"
    /\ b.method = "tools/call"
    /\ dict_get(b.params, "name", None) = "search"

\* C22: whatever the ticket API does, the response that POST /messages
\* enqueues for a tools/call of search is a result (never a JSON-RPC error),
\* and when the API call failed, gave nothing that parses or gave no tickets
\* its text decodes to {results: []}.
C22_SearchNeverErrors ==
    \A id \in DOMAIN lhist.enq : \A i \in 1..Len(lhist.enq[id]) :
        IsSearchCall(lhist.enq[id][i].request) =>
            lhist.enq[id][i].msg =
                ResultBody(lhist.enq[id][i].request.id, ToolContent(NoResults))

----------------------------------------------------------------------------
(* Session validity (checked under Spec)                                   *)

\* active, created no more than max_age ago and used no more than max_age ago
ValidByAllThree(id) ==
    /\ id \in DOMAIN sessions
    /\ sessions[id].is_active
    /\ now - sessions[id].created_at <= MaxAgeSeconds
    /\ now - sessions[id].last_activity <= MaxAgeSeconds

\* C23: in every reachable state, and at every call, validate_session(id)
\* returns true exactly if id is a known session whose active flag is true,
\* whose creation is no more than max_age ago and whose last activity is no
\* more than max_age ago; it never returns true for a session whose last
\* activity is older than max_age.
C23_ValidIffAllThree ==
    /\ [](\A id \in IDs : validate_session_ret(id) <=> ValidByAllThree(id))
    /\ [][last'.op = "validate_session" =>
            /\ last'.ret <=> ValidByAllThree(last'.id)
            /\ last'.ret => now - sessions[last'.id].last_activity <= MaxAgeSeconds]_vars

\* validate_session has returned true for a session that is exactly max_age
\* old and was last used when it was created
C23_Witness ==
    /\ last.op = "validate_session"
    /\ last.ret
    /\ last.id \in DOMAIN sessions
    /\ now - sessions[last.id].created_at = MaxAgeSeconds
    /\ now - sessions[last.id].last_activity = MaxAgeSeconds

----------------------------------------------------------------------------
(* Expiry of sessions while the server runs (checked under FairRunning)    *)

StreamableExpired(id) ==
    id \in DOMAIN sessions /\ now - sessions[id].created_at > MaxAgeSeconds

LegacyInactive(id) ==
    /\ id \in DOMAIN lsessions
    /\ now - lsessions[id].last_activity > timeout_minutes * 60

\* C24: while the server runs, every Streamable session older than max_age
\* and every legacy session inactive for more than 15 minutes is eventually
\* removed from its session table.
C24_ExpiredRemoved ==
    /\ \A id \in IDs :
        StreamableExpired(id) ~> (id \notin DOMAIN sessions)
    /\ \A id \in LIDs :
        LegacyInactive(id) ~> (id \notin DOMAIN lsessions)

----------------------------------------------------------------------------
(* The Mcp-Session-Id header on read (checked under SpecHTTP)              *)

\* C25: a GET or POST on /mcp that needs a session and whose Mcp-Session-Id
\* header has a character outside visible ASCII is answered 400.
C25_MalformedIdRejected ==
    (Finished /\ NeedsSession(req) /\ req.sid \in MalformedIds) =>
        resp.status = 400

----------------------------------------------------------------------------
(* The connection registry (checked under SpecConnections and              *)
(* FairConnections)                                                        *)

\* registered, active and not older than the connection timeout
Pingable(id) ==
    /\ id \in DOMAIN connections
    /\ connections[id].is_active
    /\ now - connections[id].connected_at <= connection_timeout

\* C26: every call ping_connection(id) returns true exactly if id is
\* registered, active and not older than the connection timeout; it then
\* sets last_ping of id to now and changes nothing else in the registry.
\* Otherwise the registry afterwards is the registry without id. An id for
\* which ping_connection has returned false is never registered afterwards.
C26_PingConnection ==
    /\ [][last'.op = "ping_connection" =>
            /\ last'.ret <=> Pingable(last'.id)
            /\ Pingable(last'.id) =>
                connections' = [connections EXCEPT ![last'.id].last_ping = now]
            /\ ~Pingable(last'.id) =>
                /\ last'.id \notin DOMAIN connections'
                /\ connections' = RemoveKeys(connections, {last'.id})]_vars
    /\ [](chist.failed \cap DOMAIN connections = {})

\* a ping has refreshed a connection some time after it was registered, and
\* another connection has been removed by a ping that returned false
C26_Witness ==
    /\ last.op = "ping_connection"
    /\ last.ret
    /\ connections[last.id].last_ping > connections[last.id].connected_at
    /\ \E id \in CIDs : id \in chist.failed /\ id \in chist.used

Violating(id) ==
    /\ id \in DOMAIN connections
    /\ \/ ~connections[id].is_active
       \/ now - connections[id].connected_at > connection_timeout

\* C27: every registered connection that is inactive or older than the
\* timeout is eventually removed from the registry; a turn of the sweep
\* removes exactly the connections that are inactive or too old, whatever
\* the generators have done before; and disconnect of an id that is not
\* registered leaves the registry as it is.
C27_SweepDisconnects ==
    /\ \A id \in CIDs : Violating(id) ~> (id \notin DOMAIN connections)
    /\ [][last'.op = "sweep" =>
            /\ \A id \in DOMAIN connections :
                  id \in DOMAIN connections' <=> ~Violating(id)
            /\ \A id \in DOMAIN connections' :
                  connections'[id] = connections[id]]_vars
    /\ [][last'.op = "disconnect" =>
            /\ last'.id \notin DOMAIN connections'
            /\ last'.id \notin DOMAIN connections => connections' = connections
            /\ \A id \in DOMAIN connections \ {last'.id} :
                  id \in DOMAIN connections' /\ connections'[id] = connections[id]]_vars

\* the sweep has removed a connection whose generator is still asleep and
\* one whose generator was closed without disconnecting
C27_Witness ==
    /\ last.op = "sweep"
    /\ connections = EmptyDict
    /\ \E id \in DOMAIN cstream : cstream[id].pc = "sleep"
    /\ \E id \in DOMAIN cstream :
          cstream[id].pc = "closed" /\ id \notin chist.failed

----------------------------------------------------------------------------
(* The SSE framer (checked under SpecFramer)                               *)

RECURSIVE TrailingNewlines(_)
TrailingNewlines(text) ==
    IF Len(text) = 0 \/ text[Len(text)] # NL THEN 0
    ELSE 1 + TrailingNewlines(SubSeq(text, 1, Len(text) - 1))

\* the events a reader of the stream dispatches: one at every empty line,
\* a line being a piece of text that a newline ends
DispatchedEvents(stream) ==
    LET parts == split(stream, NL)
    IN  Cardinality({i \in 1..(Len(parts) - 1) : parts[i] = <<>>})

\* C28: every frame to_sse_format returns ends with two newlines, and a
\* reader of two frames written one after the other dispatches two events.
C28_FrameEndsBlank ==
    Returns("to_sse_format") =>
        /\ TrailingNewlines(fcall.ret) >= 2
        /\ DispatchedEvents(fcall.ret \o fcall.ret) = 2

FramedDict == Returns("to_sse_format") /\ "dict" \in DOMAIN fcall.arg.data

\* the object the data line of the returned frame encodes
FramedObject == json_loads(split(fcall.ret, NL)[3][1].data)

\* the wrapping rule as the claim states it
WrapRule(d) ==
    IF "jsonrpc" \in DOMAIN d THEN d
    ELSE IF "type" \in DOMAIN d /\ d["type"] \in notification_types
    THEN notification("notifications/" \o d["type"], RemoveKeys(d, {"type"}))
    ELSE IF {"result", "id"} \subseteq DOMAIN d
    THEN [jsonrpc |-> "2.0", id |-> d["id"], result |-> d["result"]]
    ELSE IF {"error", "id"} \subseteq DOMAIN d
    THEN [jsonrpc |-> "2.0", id |-> d["id"],
          error |-> IF "str" \in DOMAIN d["error"]
                    THEN [code |-> -32000, message |-> d["error"].str]
                    ELSE d["error"]]
    ELSE notification("notifications/message", d)

\* C29 as stated: the data line of the frame of a dict encodes the object
\* the wrapping rule gives: notifications/<type> for the four types, a
\* response for result with id, a normalised error for error with id,
\* notifications/message for every other object, and the object itself when
\* it contains jsonrpc.
C29_WrapRule ==
    FramedDict => FramedObject = WrapRule(fcall.arg.data.dict)

\* C29, amended: as stated for an object that contains jsonrpc and for a
\* type among the four. For any other object that has a type field: result
\* gives a response and, failing that, error gives a normalised error
\* response, both with the object's id or null; failing both, the object is
\* wrapped as notifications/<type> with the object without type as params.
\* For an object without a type field: arguments gives the object with
\* jsonrpc added and arguments renamed params; failing that, method gives
\* the object with jsonrpc added; failing that, result and error give
\* responses as above; every remaining object is wrapped as
\* notifications/message.
C29_WrapByBranch ==
    FramedDict =>
        LET d == fcall.arg.data.dict
            D == DOMAIN d
            out == FramedObject
            four == "type" \in D /\ d["type"] \in notification_types
            typed == "type" \in D /\ d["type"] \notin notification_types
            id == IF "id" \in D THEN d["id"] ELSE None
            err == IF "str" \in DOMAIN d["error"]
                   THEN [code |-> -32000, message |-> d["error"].str]
                   ELSE d["error"]
            response ==
                \/ typed
                \/ "type" \notin D /\ D \cap {"arguments", "method"} = {}
        IN  /\ "jsonrpc" \in D => out = d
            /\ "jsonrpc" \notin D =>
                /\ four =>
                    out = [jsonrpc |-> "2.0",
                           method |-> "notifications/" \o d["type"],
                           params |-> RemoveKeys(d, {"type"})]
                /\ response /\ "result" \in D =>
                    out = [jsonrpc |-> "2.0", id |-> id, result |-> d["result"]]
                /\ response /\ "result" \notin D /\ "error" \in D =>
                    out = [jsonrpc |-> "2.0", id |-> id, error |-> err]
                /\ typed /\ D \cap {"result", "error"} = {} =>
                    out = [jsonrpc |-> "2.0",
                           method |-> "notifications/" \o d["type"],
                           params |-> RemoveKeys(d, {"type"})]
                /\ "type" \notin D /\ "arguments" \in D =>
                    /\ DOMAIN out = (D \ {"arguments"}) \cup {"jsonrpc", "params"}
                    /\ out["jsonrpc"] = "2.0"
                    /\ out["params"] = d["arguments"]
                    /\ \A k \in D \ {"arguments"} : out[k] = d[k]
                /\ "type" \notin D /\ "arguments" \notin D /\ "method" \in D =>
                    /\ DOMAIN out = D \cup {"jsonrpc"}
                    /\ out["jsonrpc"] = "2.0"
                    /\ \A k \in D : out[k] = d[k]
                /\ D \cap {"type", "arguments", "method", "result", "error"} = {} =>
                    out = [jsonrpc |-> "2.0", method |-> "notifications/message",
                           params |-> d]

\* the frame of an object whose type is outside the four and that carries
\* neither result nor error
C29_Witness ==
    /\ FramedDict
    /\ "type" \in DOMAIN fcall.arg.data.dict
    /\ fcall.arg.data.dict["type"] = "progress"
    /\ DOMAIN fcall.arg.data.dict \cap {"jsonrpc", "result", "error"} = {}
    /\ FramedObject["method"] = "notifications/progress"

\* C30: the frame of a message whose data is a dict splits at the newlines
\* into "id: <id>", "event: <event>", "data: <JSON of the dict>" and an
\* empty string, and decoding the data line gives the dict back.
C30_PlainDictRoundTrip ==
    FramedDict =>
        /\ split(fcall.ret, NL) =
              << <<[id |-> fcall.arg.id]>>, <<[event |-> fcall.arg.event]>>,
                 <<[data |-> json_dumps(fcall.arg.data.dict)]>>, <<>> >>
        /\ FramedObject = fcall.arg.data.dict

----------------------------------------------------------------------------
(* Session and transport errors on /mcp (checked under SpecHTTP)           *)

\* the statuses of session and transport errors: bad Accept (400, 405),
\* parse error, batch, invalid shape, missing session id (400, 500), unknown
\* session id (404), bad origin (403)
TransportError(r) == r.status \in {400, 403, 404, 405, 500}

\* C31: the step that ends an /mcp exchange in a session or transport error
\* creates no session and leaves every session that was valid before it in
\* the table, valid, and with the same record (state and auth info
\* included); the step that receives a request never changes the table, so
\* the whole exchange has not changed it either.
C31_ErrorsKeepTable ==
    /\ [][hpc = "idle" /\ hpc' # "idle" => sessions' = sessions]_vars
    /\ [][hpc # "done" /\ hpc' = "done" /\ TransportError(resp') =>
            /\ did'.created = None
            /\ DOMAIN sessions' \subseteq DOMAIN sessions
            /\ \A id \in DOMAIN sessions :
                  validate_session_ret(id) =>
                    /\ id \in DOMAIN sessions'
                    /\ sessions'[id] = sessions[id]
                    /\ validate_session_ret(id)']_vars

\* an exchange has ended with 404 for an id that is not in the table, while
\* a session that holds auth info is in the table and valid
C31_Witness ==
    /\ hpc = "done"
    /\ resp.status = 404
    /\ hsid \notin DOMAIN sessions
    /\ \E id \in DOMAIN sessions :
          validate_session_ret(id) /\ sessions[id].auth_info # EmptyDict

----------------------------------------------------------------------------
(* Keep-alive timing (checked under SpecKeepAlive)                         *)

\* the number of pings or keep-alives of an open stream is within one of
\* floor(T / 30), T the time since the stream was opened
WithinOne(k) ==
    LET n == (now - kstream[k].opened) \div 30
    IN  kstream[k].pings >= n - 1 /\ kstream[k].pings <= n + 1

\* C32 as stated: on every open stream, whatever its kind and whether or
\* not messages were delivered on it, the number of ping or keep-alive
\* frames is within floor(T/30) plus or minus 1.
C32_KeepAliveRate == \A k \in KStreams : KOpenAt(k) => WithinOne(k)

\* C32, amended: the bound holds on every Streamable GET stream, every
\* legacy api_key stream and every legacy Bearer stream on which no message
\* has been delivered; on a legacy Bearer stream with messages the number of
\* keep-alive frames is at most floor(T/30).
C32_KeepAliveRateIdle ==
    \A k \in KStreams : KOpenAt(k) =>
        /\ (k # "bearer" \/ ~kstream[k].traffic) => WithinOne(k)
        /\ k = "bearer" =>
              kstream[k].pings <= (now - kstream[k].opened) \div 30

\* a Streamable stream has sent its third ping sixty seconds after it was
\* opened, while a Bearer stream that carried a message has sent one
\* keep-alive
C32_Witness ==
    /\ KOpenAt("streamable")
    /\ now - kstream["streamable"].opened = 60
    /\ kstream["streamable"].pings = 3
    /\ KOpenAt("bearer")
    /\ kstream["bearer"].traffic
    /\ kstream["bearer"].pings = 1

----------------------------------------------------------------------------
(* The session id (checked under SpecMint)                                 *)

\* C33: the id create_session returns has exactly 32 characters and each of
\* them has a code in 0x21..0x7E, so none is a space (0x20) or DEL (0x7F),
\* also when the id was generated again after a collision.
C33_IdVisibleAscii ==
    mint.pc = "returned" =>
        /\ mint.len = 32
        /\ mint.outside = {}
        /\ mint.last \in 33 .. 126

\* a returned id that was generated again after a collision and ends with
\* "~" (0x7E)
C33_Witness ==
    /\ mint.pc = "returned"
    /\ mint.collisions = 1
    /\ mint.last = 126

----------------------------------------------------------------------------
(* Session info (checked under SpecSessionInfo)                            *)

\* equal except for the values stored in auth_info
SameButSecrets(x, y) ==
    /\ DOMAIN x.auth_info = DOMAIN y.auth_info
    /\ [x EXCEPT !.auth_info = EmptyDict] = [y EXCEPT !.auth_info = EmptyDict]

\* C34: get_session_info renders no value of auth_info, and for two
\* sessions that are equal except for the values stored in auth_info it
\* returns the same output.
C34_SecretsNotRendered ==
    Returns("get_session_info") =>
        /\ \A k \in DOMAIN fcall.ret.a.auth_info :
              fcall.ret.a.auth_info[k] \notin {"secret-1", "secret-2"}
        /\ SameButSecrets(fcall.arg.a, fcall.arg.b) => fcall.ret.a = fcall.ret.b

\* the info of two sessions that hold different secrets under the same two
\* keys
C34_Witness ==
    /\ Returns("get_session_info")
    /\ SameButSecrets(fcall.arg.a, fcall.arg.b)
    /\ DOMAIN fcall.arg.a.auth_info = {"authorization", "api_key"}
    /\ fcall.arg.a.auth_info["api_key"] # fcall.arg.b.auth_info["api_key"]
    /\ fcall.ret.a = fcall.ret.b

----------------------------------------------------------------------------
(* Critical sections of the session manager (checked under Spec)           *)

\* C35: update_session_state runs as one critical section: while a thread
\* is between the lookup and the write of update_session_state, no step
\* other than its own write changes the session table.
C35_OneCriticalSection ==
    [][\A t \in Threads :
          thr[t].op = "update_session_state" /\ sessions' # sessions =>
              thr'[t] = Idle]_vars

----------------------------------------------------------------------------
(* The sweep of the session table (checked under Spec)                     *)

\* creation age or inactivity age over max_age, or the active flag false
Sweepable(id) ==
    \/ now - sessions[id].created_at > MaxAgeSeconds
    \/ now - sessions[id].last_activity > MaxAgeSeconds
    \/ ~sessions[id].is_active

\* C36: a call of cleanup_expired_sessions removes exactly the sessions
\* whose creation age or inactivity age exceeds max_age or whose active flag
\* is false, leaves every other record as it was, and returns the number of
\* sessions removed; in the state it leaves, validate_session is true of
\* every session in the table.
C36_CleanupExact ==
    [][last'.op = "cleanup_expired_sessions" =>
        /\ DOMAIN sessions' = {s \in DOMAIN sessions : ~Sweepable(s)}
        /\ \A s \in DOMAIN sessions' : sessions'[s] = sessions[s]
        /\ last'.ret = Cardinality(DOMAIN sessions) - Cardinality(DOMAIN sessions')
        /\ last'.ret = Cardinality({s \in DOMAIN sessions : Sweepable(s)})
        /\ \A s \in DOMAIN sessions' : validate_session_ret(s)']_vars

\* a sweep that removed one session and kept a younger one
C36_Witness ==
    /\ last.op = "cleanup_expired_sessions"
    /\ last.ret = 1
    /\ Cardinality(DOMAIN sessions) = 1
    /\ \E s \in DOMAIN sessions : sessions[s].created_at > 0

----------------------------------------------------------------------------
(* What validate_session and get_session write (checked under Spec)        *)

\* C37: validate_session(id) leaves the whole table as it is when id is
\* unknown or not older than max_age (last_activity included), and removes
\* id and nothing else, returning false, when id is older than max_age;
\* get_session(id) on a known id sets last_activity of id to now and
\* changes no other field and no other session.
C37_ValidateGetFrame ==
    /\ [][last'.op = "validate_session" =>
            IF last'.id \in DOMAIN sessions
               /\ now - sessions[last'.id].created_at > MaxAgeSeconds
            THEN /\ ~last'.ret
                 /\ DOMAIN sessions' = DOMAIN sessions \ {last'.id}
                 /\ \A s \in DOMAIN sessions' : sessions'[s] = sessions[s]
            ELSE sessions' = sessions]_vars
    /\ [][last'.op = "get_session" =>
            IF last'.id \in DOMAIN sessions
            THEN /\ DOMAIN sessions' = DOMAIN sessions
                 /\ sessions'[last'.id].last_activity = now
                 /\ [sessions'[last'.id] EXCEPT !.last_activity = 0]
                      = [sessions[last'.id] EXCEPT !.last_activity = 0]
                 /\ \A s \in DOMAIN sessions \ {last'.id} :
                       sessions'[s] = sessions[s]
            ELSE sessions' = sessions]_vars

\* validate_session has just removed an expired session and left in place a
\* session whose last_activity an earlier get_session had refreshed
C37_Witness ==
    /\ last.op = "validate_session"
    /\ ~last.ret
    /\ last.id \notin DOMAIN sessions
    /\ \E s \in DOMAIN sessions :
          sessions[s].last_activity > sessions[s].created_at

----------------------------------------------------------------------------
(* Cancellation of a stream generator (checked under SpecCancel)           *)

CancelledNow(g, h) == g.pc # "cancelled" /\ h.pc = "cancelled"

\* C38: the step in which a stream generator is cancelled creates, removes
\* and changes no session and leaves the queues as they are, and the
\* generator yields no frame in it; afterwards the generator is at its end:
\* it yields nothing more, waits for no queue item (items enqueued later
\* stay in the queue), and only a new stream takes its place.
C38_CancelFrame ==
    /\ [][CancelledNow(gen, gen') =>
            /\ sessions' = sessions
            /\ lsessions' = lsessions
            /\ gen'.frames = gen.frames]_vars
    /\ [][gen.pc = "cancelled" => gen' = gen \/ gen'.pc = "start"]_vars
    /\ [][\A id \in DOMAIN lgen :
            CancelledNow(lgen[id], lgen'[id]) =>
                /\ lsessions' = lsessions
                /\ sessions' = sessions
                /\ lqueue' = lqueue
                /\ lgen'[id].frames = lgen[id].frames]_vars
    /\ [][\A id \in DOMAIN lgen :
            lgen[id].pc = "cancelled" =>
                /\ lgen'[id] = lgen[id]
                /\ Len(lqueue'[id]) >= Len(lqueue[id])]_vars
    /\ [][\A id \in DOMAIN cstream :
            /\ CancelledNow(cstream[id], cstream'[id]) =>
                    sessions' = sessions /\ lsessions' = lsessions
            /\ cstream[id].pc \in {"cancelled", "closed"} =>
                    cstream'[id] = cstream[id]]_vars

\* a legacy stream that was cancelled after it had delivered a message, with
\* a message enqueued for it still in its queue
C38_Witness ==
    /\ Serving("bearer")
    /\ \E id \in DOMAIN lgen :
        /\ lgen[id].pc = "cancelled"
        /\ lqueue[id] # <<>>
        /\ \E i \in 1..Len(lgen[id].frames) : lgen[id].frames[i].event = "message"
        /\ id \in DOMAIN lsessions

----------------------------------------------------------------------------
(* Who adds to the session table (checked under Spec)                      *)

\* C39: an id enters the session table only in a step of create_session
\* that returns that id; so once a session is removed, no interleaving of
\* update_session_state, update_session_activity, get_session,
\* validate_session or the sweep puts it back, and validate_session of an
\* id that is not in the table is false.
C39_OnlyCreateInserts ==
    /\ [][\A id \in IDs :
            id \notin DOMAIN sessions /\ id \in DOMAIN sessions' =>
                last'.op = "create_session" /\ last'.ret = id]_vars
    /\ [](\A id \in IDs : id \notin DOMAIN sessions => ~validate_session_ret(id))

\* update_session_state has written through the reference it obtained
\* before the session was removed, and the session is still not in the table
C39_Witness ==
    /\ last.op = "update_session_state"
    /\ last.ret = FALSE
    /\ last.id \notin DOMAIN sessions

----------------------------------------------------------------------------
(* Notifications posted to /messages (checked under SpecNotify)            *)

\* {"jsonrpc": "2.0", "method": method, "params": {}}: no id
NotificationBody(method) == Obj("2.0", {"method", "params"}, method)

\* what clients post to /messages, notifications included
NotifyBodies ==
    LegacyBodies \cup {NotificationBody("notifications/initialized"),
                       NotificationBody("ping")}

\* one legacy stream read to its end, and concurrent POSTs of requests and
\* of notifications
NextNotify ==
    \/ \E token \in OneToken : SseConnect(token, OneStream)
    \/ \E id \in LIDs : LGenStep(id)
    \/ \E id \in LIDs : LCancel(id)
    \/ \E p \in Posters, id \in OneStream, token \in OneToken, b \in NotifyBodies :
            PostReceive(p, id, token, b)
    \/ \E p \in Posters : PostParse(p)
    \/ \E p \in Posters : PostTool(p)

SpecNotify == Init /\ [][NextNotify]_vars

\* C40: a notification (method, no id) posted to /messages is not answered:
\* every message enqueued onto a session's queue answers a request that had
\* an id.
C40_NotificationsUnanswered ==
    \A id \in DOMAIN lhist.enq : \A i \in 1 .. Len(lhist.enq[id]) :
        "id" \in lhist.enq[id][i].request.fields

====
